---------------------------- MODULE Spec2Model ----------------------------
(***************************************************************************)
(* A model of the metadata-tables decoder of hao (a parser for the CLI     *)
(* metadata embedded in PE files): list-range resolution, the coded-token  *)
(* codec, the table layout calculator, the row decoders and the signature  *)
(* decoder.  Each part has its own specification; the parts share one set  *)
(* of variables, and a part that a specification does not exercise keeps   *)
(* its variables at their idle values.                                     *)
(***************************************************************************)
EXTENDS Integers, Sequences, FiniteSets, TLC

VARIABLES
    \* --- list-range resolution (io/entry_reader.rs, entries/mod.rs) ---
    target_len,     \* number of cells of the target table (get_table().len())
    list_col,       \* the list column of the owner table, one raw value per owner row
    row_pos,        \* enumerate() index of the next owner row init_ent_list reads
    resolved,       \* what from_row returned for the owner rows read so far
    build_result,   \* "running", "ok" or the error init_ent_list returned
    \* --- the tables stream header (tables_stream/mod.rs, metadata.rs) ---
    table_rows,     \* TableRows: the row count of every metadata table
    flags,          \* MDStreamFlags: the heap-size flags that are set
    version,        \* Version(major, minor)
    coded_token_sizes,  \* CodedTokenSizes::from_header(&table_rows)
    \* --- the table layout and the row decoders (calculator.rs, tables.rs) ---
    calc_index,     \* TablePositionCalculator.index
    table_locations,    \* the TableLocation of every table located so far
    row_read,       \* the table whose row decoder last ran, and what it consumed
    \* --- coded tokens and index fields (coded_tokens.rs, entries/values.rs) ---
    token_kind,     \* T of the CodedToken<T> last decoded
    coded_value,    \* the u32 handed to CodedToken::decode
    token,          \* what CodedToken::decode returned
    field_value,    \* what get_entry_field returned for token, and its lookups
    index_field,    \* the rid stored in the simple index column last read
    index_value,    \* what the simple index read returned, and its lookups
    \* --- signatures of the #Blob heap (blob_stream/reader.rs, signature.rs) ---
    blob_heap,      \* the bytes of the #Blob heap
    blob_offset,    \* the blob index a column holds (BlobStreamOffset.0)
    sig_kind,       \* the type read from the blob: "SignatureDef" or "TypeSigDef"
    sig_reader,     \* the SignatureReader: its bytes, position and recursion_count
    sig_stack,      \* the reads of the decoder that wait for a nested read
    sig_pc,         \* the read about to start, or the value a read returned
    sig_result,     \* what EntryReader::read returned for the blob index
    \* --- the graph build (metadata.rs, module/loaded.rs, entries/mod.rs) ---
    stream_names,   \* MetadataHeader.streams: the name of every stream header
    raw_rows,       \* the rows of the tables the build reads, column by column
    metadata,       \* what Metadata::parse returned
    entries,        \* MaybeUninitEntries: the cells of every list
    row_iter,       \* init_rows: the list being read, its row iterator, the peeked row
    loaded,         \* what Module::from_metadata returned, and Module::module after it
    \* --- the heap accessors (values_streams.rs, blob_stream/reader.rs) ---
    heap_name,      \* the heap an offset column indexes: "#Strings", "#GUID", "#Blob"
    heap_offset,    \* the u32 the column holds
    heap_value,     \* what the heap's accessor returned for the offset
    \* --- the PE image (io/peimage.rs) ---
    pe,             \* PEImage: the optional header's fields, the section table, data.len()
    pe_rva,         \* the rva handed to create_reader
    pe_size,        \* the size handed to create_reader: None or Some(n)
    pe_reader,      \* what create_reader returned: the slice of data the reader holds
    \* --- the classification of a TypeDef (entries/values.rs) ---
    type_flags,     \* TypeDef.flags: the bits of TypeAttributes that are set
    type_extends,   \* TypeDef.extends: None or Some(TypeDefOrRef)
    type_is,        \* what is_static, is_enum, is_interface, is_struct, is_delegate returned
    \* --- the assembly resolver (module/resolver.rs, module/loaded.rs) ---
    assembly_refs,  \* the AssemblyRef names of the file of every assembly name
    found_paths,    \* the assembly names find_path_for finds a file for
    unreadable,     \* the assembly names whose file from_path_no_resolve fails on
    load_calls,     \* the calls of load made from outside so far
    assembly_list,  \* PathAssemblyResolver.assembly_list: the names, in push order
    parsed,         \* the modules from_path_no_resolve has returned, by name
    refrenced,      \* the AssemblyRef cells whose refrenced_assembly is Some
    load_stack,     \* the load_dependancies calls that wait for resolver.load
    load_pc,        \* the load call about to run, or what a load returned
    load_result     \* what the outermost load returned

rangeVars == <<target_len, list_col, row_pos, resolved, build_result>>
headerVars == <<table_rows, flags, version, coded_token_sizes>>
layoutVars == <<calc_index, table_locations, row_read>>
tokenVars == <<token_kind, coded_value, token, field_value, index_field,
               index_value>>

sigVars == <<blob_heap, blob_offset, sig_kind, sig_reader, sig_stack, sig_pc,
             sig_result>>

buildVars == <<stream_names, raw_rows, metadata, entries, row_iter, loaded>>

heapVars == <<heap_name, heap_offset, heap_value>>

peVars == <<pe, pe_rva, pe_size, pe_reader>>

typeVars == <<type_flags, type_extends, type_is>>

resolverVars == <<assembly_refs, found_paths, unreadable, load_calls,
                  assembly_list, parsed, refrenced,
                  load_stack, load_pc, load_result>>

vars == <<rangeVars, headerVars, layoutVars, tokenVars, sigVars, buildVars,
         heapVars,
         peVars,
         typeVars,
         resolverVars>>

-----------------------------------------------------------------------------
(* Result<T> and Option<T> *)

Ok(v) == [tag |-> "Ok", val |-> v]
Err(kind, at) == [tag |-> "Err", val |-> <<kind, at>>]
IsOk(r) == r.tag = "Ok"
IsErr(r) == r.tag = "Err"

None == [some |-> FALSE, v |-> 0]
Some(x) == [some |-> TRUE, v |-> x]

\* a value not read yet
Unread == [tag |-> "Unread", val |-> <<>>]
IsUnread(r) == r.tag = "Unread"

\* panic!(..), an assert!(..) that fails, an index out of range: the call
\* unwinds instead of returning
Panic(msg) == [tag |-> "Panic", val |-> msg]
IsPanic(r) == r.tag = "Panic"

\* the indices a, a+1, .., b-1 as a sequence: the slice target_rows[a..b]
Slice(a, b) == [k \in 1..(b - a) |-> a + k - 1]

\* The variables of a part no operation has touched
RangeIdle ==
    /\ target_len = 0
    /\ list_col = <<>>
    /\ row_pos = 0
    /\ resolved = <<>>
    /\ build_result = "idle"

HeaderIdle ==
    /\ table_rows = <<>>
    /\ flags = {}
    /\ version = <<0, 0>>
    /\ coded_token_sizes = Unread

LayoutIdle ==
    /\ calc_index = 0
    /\ table_locations = <<>>
    /\ row_read = Unread

TokenIdle ==
    /\ token_kind = ""
    /\ coded_value = <<>>
    /\ token = Unread
    /\ field_value = Unread
    /\ index_field = 0
    /\ index_value = Unread

SigIdle ==
    /\ blob_heap = <<>>
    /\ blob_offset = 0
    /\ sig_kind = ""
    /\ sig_reader = <<>>
    /\ sig_stack = <<>>
    /\ sig_pc = [op |-> "idle"]
    /\ sig_result = Unread

BuildIdle ==
    /\ stream_names = <<>>
    /\ raw_rows = <<>>
    /\ metadata = Unread
    /\ entries = <<>>
    /\ row_iter = <<>>
    /\ loaded = Unread

HeapIdle ==
    /\ heap_name = ""
    /\ heap_offset = 0
    /\ heap_value = Unread

PeIdle ==
    /\ pe = <<>>
    /\ pe_rva = 0
    /\ pe_size = None
    /\ pe_reader = Unread

TypeIdle ==
    /\ type_flags = {}
    /\ type_extends = None
    /\ type_is = Unread

ResolverIdle ==
    /\ assembly_refs = <<>>
    /\ found_paths = {}
    /\ unreadable = {}
    /\ load_calls = 0
    /\ assembly_list = <<>>
    /\ parsed = <<>>
    /\ refrenced = {}
    /\ load_stack = <<>>
    /\ load_pc = [op |-> "idle"]
    /\ load_result = Unread

-----------------------------------------------------------------------------
(* Bounds of the list-range part *)

MaxTargets == 5     \* target tables of 0..MaxTargets rows
NumOwners == 4      \* rows of the owner table

-----------------------------------------------------------------------------
(* io/entry_reader.rs *)

\* GetTableForRead::to_index: (offset.0 as usize).checked_sub(1)
to_index_wrong(offset) == Ok(offset)
to_index(offset) ==
    IF offset >= 1 THEN Ok(offset - 1) ELSE Err("InvalidEntryRefrence", 0)

\* <[T]>::get(start..end): None when start > end or end > len
slice_get(len, start, end) ==
    IF start <= end /\ end <= len THEN Some(Slice(start, end)) ELSE None

\* ValueReadable<RowRange<T>>::read; identifier = RowRange {start, end: Option}
read_RowRange(start_off, end_off, len) ==
    LET s == to_index(start_off)
        e == IF end_off.some THEN to_index(end_off.v) ELSE Ok(len)
    IN  IF IsErr(s) THEN s
        ELSE IF IsErr(e) THEN e
        ELSE LET start == s.val
                 end == e.val    \* end.unwrap_or(target_rows.len())
             IN  IF start = end THEN Ok(<<>>)
                 ELSE IF start >= len
                      THEN Err("InvalidEntryRefrence", start)
                      ELSE LET got == slice_get(len, start, end)
                           IN  Ok(IF got.some THEN got.v ELSE Slice(start, len))

-----------------------------------------------------------------------------
(* entries/values.rs, entries/mod.rs: the owner rows of one list column *)

\* The row init_ent_list peeks at: the next owner row's list value, if any.
next_row_not_peeked(index) == None
next_row(index) ==
    IF index + 2 <= Len(list_col) THEN Some(list_col[index + 2]) ELSE None

\* ReadEntry<TypeDef>::from_row, its list column:
\* self.read(RowRange::new(row.field_list, _next.map(|x| x.field_list)))
from_row(index) == read_RowRange(list_col[index + 1], next_row(index), target_len)

RangeStart ==
    /\ target_len \in 0..MaxTargets
    /\ list_col \in [1..NumOwners -> 0..(target_len + 2)]
    /\ row_pos = 0
    /\ resolved = <<>>
    /\ build_result = "running"

\* One turn of init_ent_list's while loop: the row is decoded, a failure
\* returns from init_ent_list ("?"), otherwise the entry is written.
init_ent_list_row ==
    /\ build_result = "running"
    /\ row_pos < Len(list_col)
    /\ LET val == from_row(row_pos)
       IN  /\ resolved' = Append(resolved, val)
           /\ IF IsErr(val)
              THEN build_result' = "error" /\ row_pos' = row_pos
              ELSE build_result' = "running" /\ row_pos' = row_pos + 1
    /\ UNCHANGED <<target_len, list_col, headerVars, layoutVars, tokenVars,
                   sigVars,
                   buildVars,
                   heapVars,
                   peVars,
                   typeVars,
                   resolverVars>>

\* row_iter.next() returns None: init_ent_list returns Ok(())
init_ent_list_end ==
    /\ build_result = "running"
    /\ row_pos = Len(list_col)
    /\ build_result' = "ok"
    /\ UNCHANGED <<target_len, list_col, row_pos, resolved, headerVars,
                   layoutVars, tokenVars,
                   sigVars,
                   buildVars,
                   heapVars,
                   peVars,
                   typeVars,
                   resolverVars>>

RangeInit == RangeStart /\ HeaderIdle /\ LayoutIdle /\ TokenIdle /\ SigIdle /\ BuildIdle
        /\ HeapIdle
        /\ PeIdle
        /\ TypeIdle
        /\ ResolverIdle

RangeNext == init_ent_list_row \/ init_ent_list_end

SpecRange == RangeInit /\ [][RangeNext]_vars

\* The owner rows init_ent_list has decoded so far (1-based positions in list_col)
ReadOwners == 1..Len(resolved)

\* The raw list value that closes owner row i's range, if a next owner row exists
NextListValue(i) == IF i < Len(list_col) THEN Some(list_col[i + 1]) ELSE None

\* C1 (as amended): list values are 1-based row ids.  An owner row whose list
\* value v and closing value e (the next owner row's list value, or one past
\* the target table's last row id for the last owner row) are in order and in
\* bounds, 1 <= v <= e <= len + 1, resolves to the half-open range of target
\* rows with indices [v - 1, e - 1).  With field_list values [1, 3, 3, 6] over
\* 4 TypeDef rows and 5 Field rows, TypeDef#1 resolves to fields [0,2), #2 to
\* [2,2), #3 to [2,5) and #4 to [5,5).
ListRangeOneBased ==
    /\ \A i \in ReadOwners :
         LET v == list_col[i]
             n == NextListValue(i)
             e == IF n.some THEN n.v ELSE target_len + 1
         IN  (1 <= v /\ v <= e /\ e <= target_len + 1)
                => resolved[i] = Ok(Slice(v - 1, e - 1))
    /\ (list_col = <<1, 3, 3, 6>> /\ target_len = 5 /\ build_result = "ok")
         => resolved = <<Ok(<<0, 1>>), Ok(<<>>), Ok(<<2, 3, 4>>), Ok(<<>>)>>

\* C1 witness: the four TypeDef rows with field_list [1, 3, 3, 6] over five
\* Field rows have all been resolved.
ListRangeOneBasedSeen ==
    /\ list_col = <<1, 3, 3, 6>>
    /\ target_len = 5
    /\ Len(resolved) = 4
    /\ build_result = "ok"

\* C1 (as stated): the range starts at the row's list value itself and ends at
\* the next row's list value or the table's end; field_list [0, 2, 2, 5] with
\* 5 Field rows resolves to [0,2), [2,2), [2,5), [5,5).
ListRangeAsStated ==
    /\ \A i \in ReadOwners :
         LET v == list_col[i]
             n == NextListValue(i)
             e == IF n.some THEN n.v ELSE target_len
         IN  (v <= e /\ e <= target_len) => resolved[i] = Ok(Slice(v, e))
    /\ (list_col = <<0, 2, 2, 5>> /\ target_len = 5 /\ build_result # "running")
         => resolved = <<Ok(<<0, 1>>), Ok(<<>>), Ok(<<2, 3, 4>>), Ok(<<>>)>>

\* C2 (as stated): a resolved list column whose range is out of order (start
\* index after end index) or out of bounds (start or end index beyond the
\* target table's row count) returned a typed error, never a slice of rows.
BadRangeIsError ==
    \A i \in ReadOwners :
        LET v == list_col[i]
            n == NextListValue(i)
            start == v - 1
            end == IF n.some THEN n.v - 1 ELSE target_len
        IN  (start > end \/ start > target_len \/ end > target_len)
               => IsErr(resolved[i])

-----------------------------------------------------------------------------
(* Unsigned 32-bit words.  A u32 is kept as its two 16-bit halves so that  *)
(* every value of the type, and the wrap-around of a shift, is exact.      *)

U32(hi, lo) == [hi |-> hi, lo |-> lo]

\* x >> bits for 1 <= bits <= 16 (the result is below 2^31)
shr32(x, bits) == x.hi * 2^(16 - bits) + x.lo \div 2^bits

\* x & !(0xFFFFFFFF << bits) for bits <= 16
low_bits(x, bits) == x.lo % 2^bits

-----------------------------------------------------------------------------
(* md/streams/tables_stream/coded_tokens.rs: the coded-token kinds *)

TokenKinds ==
    {"TypeDefOrRef", "HasConstant", "HasCustomAttribute", "HasFieldMarshal",
     "HasDeclSecurity", "MemberRefParent", "HasSemantic", "MethodDefOrRef",
     "MemberForwarded", "Implementation", "CustomAttributeType",
     "ResolutionScope", "TypeOrMethodDef", "HasCustomDebugInformation"}

\* CodedTokenTarget::BITS of every kind
BITS ==
    [TypeDefOrRef |-> 2, HasConstant |-> 2, HasCustomAttribute |-> 5,
     HasFieldMarshal |-> 1, HasDeclSecurity |-> 2, MemberRefParent |-> 3,
     HasSemantic |-> 1, MethodDefOrRef |-> 1, MemberForwarded |-> 1,
     Implementation |-> 2, CustomAttributeType |-> 3, ResolutionScope |-> 2,
     TypeOrMethodDef |-> 1, HasCustomDebugInformation |-> 5]

HasCustomAttributeTables ==
    <<"Method", "Field", "TypeRef", "TypeDef", "Param", "InterfaceImpl",
      "MemberRef", "Module", "DeclSecurity", "Property", "Event",
      "StandAloneSig", "ModuleRef", "TypeSpec", "Assembly", "AssemblyRef",
      "File", "ExportedType", "ManifestResource", "GenericParam",
      "GenericParamConstraint", "MethodSpec">>

\* The enumeration of every kind, in discriminant order (first variant = 0)
TokenEnum ==
    [TypeDefOrRef |-> <<"TypeDef", "TypeRef", "TypeSpec">>,
     HasConstant |-> <<"Field", "Param", "Property">>,
     HasCustomAttribute |-> HasCustomAttributeTables \o <<"Unused1", "Unused2">>,
     HasFieldMarshal |-> <<"Field", "Param">>,
     HasDeclSecurity |-> <<"TypeDef", "Method", "Assembly">>,
     MemberRefParent |-> <<"TypeDef", "TypeRef", "ModuleRef", "Method", "TypeSpec">>,
     HasSemantic |-> <<"Event", "Property">>,
     MethodDefOrRef |-> <<"Method", "MemberRef">>,
     MemberForwarded |-> <<"Field", "Method">>,
     Implementation |-> <<"File", "AssemblyRef", "ExportedType">>,
     CustomAttributeType |-> <<"Unused1", "Unused2", "Method", "MemberRef", "Unused3">>,
     ResolutionScope |-> <<"Module", "ModuleRef", "AssemblyRef", "TypeRef">>,
     TypeOrMethodDef |-> <<"TypeDef", "Method">>,
     HasCustomDebugInformation |->
        HasCustomAttributeTables \o
        <<"Document", "LocalScope", "LocalVariable", "LocalConstant", "ImportScope">>]

\* #[derive(FromPrimitive)]: T::from_u32
from_u32(kind, n) ==
    IF n < Len(TokenEnum[kind]) THEN Some(TokenEnum[kind][n + 1]) ELSE None

\* CodedToken::decode
decode_unchecked(kind, value) ==
    Ok([rid |-> shr32(value, BITS[kind]),
        target |-> TokenEnum[kind][(low_bits(value, BITS[kind]) % Len(TokenEnum[kind])) + 1]])
decode_shifted(kind, value) ==
    LET t == from_u32(kind, low_bits(value, BITS[kind]))
    IN  IF t.some THEN Ok([rid |-> shr32(value, BITS[kind] + 1), target |-> t.v])
        ELSE Err("InvalidCodedToken", value)
decode(kind, value) ==
    LET table_offset == shr32(value, BITS[kind])
        target == from_u32(kind, low_bits(value, BITS[kind]))
    IN  IF target.some
        THEN Ok([rid |-> table_offset, target |-> target.v])
        ELSE Err("InvalidCodedToken", value)

-----------------------------------------------------------------------------
(* md/streams/tables_stream/metadata.rs: the tables, in canonical order *)

TableNames ==
    <<"module", "type_ref", "type_def", "field_ptr", "field", "method_ptr",
      "method", "param_ptr", "param", "interface_impl", "member_ref",
      "constant", "custom_attribute", "field_marshal", "decl_security",
      "class_layout", "field_layout", "stand_alone_sig", "event_map",
      "event_ptr", "event", "property_map", "property_ptr", "property",
      "method_semantics", "method_impl", "module_ref", "type_spec",
      "impl_map", "field_rva", "enc_log", "enc_map", "assembly",
      "assembly_processor", "assembly_os", "assembly_ref",
      "assembly_ref_processor", "assembly_ref_os", "file", "exported_type",
      "manifest_resource", "nested_class", "generic_param", "method_spec",
      "generic_param_constraint", "document", "method_debug_information",
      "local_scope", "local_variable", "local_constant", "import_scope",
      "state_machine_method", "custom_debug_information">>

Tables == {TableNames[i] : i \in 1..Len(TableNames)}

-----------------------------------------------------------------------------
(* entries/mod.rs, entries/values.rs, io/entry_reader.rs: resolving a      *)
(* decoded token or a simple index to a cell of MaybeUninitEntries         *)

MaxRows == 2    \* a table of the entries is empty or has MaxRows rows

\* MaybeUninitEntries::from_rows: the metadata table that sizes each list
EntList ==
    [modules |-> "module", type_refs |-> "type_ref", type_defs |-> "type_def",
     fields |-> "field", methods |-> "method", params |-> "param",
     interface_impls |-> "interface_impl", module_ref |-> "module_ref",
     type_specs |-> "type_spec", assembly_ref |-> "assembly_ref"]

\* self.<list>.len()
ent_len(list) == table_rows[EntList[list]]

\* The list each arm of get_entry_field's match reads
TokenList ==
    [ResolutionScope |->
        [Module |-> "modules", ModuleRef |-> "module_ref",
         AssemblyRef |-> "assembly_ref", TypeRef |-> "type_refs"],
     TypeDefOrRef |->
        [TypeDef |-> "type_defs", TypeRef |-> "type_refs",
         TypeSpec |-> "type_specs"]]

ResolvedKinds == DOMAIN TokenList

\* A Ptr to cell index of an entries list, tagged with the pointer enum's
\* variant; PtrNone is ResolutionScopePtr::None / TypeDefOrRefPtr::None
Ptr(variant, list, index) == [variant |-> variant, list |-> list, index |-> index]
PtrNone == Ptr("None", "", 0)

\* What a read returned and the <list>.get(index) calls it made
Read(result, lookups) == [tag |-> "Read", result |-> result, lookups |-> lookups]

\* GetEntryField<CodedToken<T>>::get_entry_field, T = ResolutionScopeToken
\* or TypeDefOrRefToken
get_entry_field(kind, identifier) ==
    IF identifier.rid = 0
    THEN Read(Ok(PtrNone), <<>>)
    ELSE LET index == identifier.rid - 1
             list == TokenList[kind][identifier.target]
         IN  Read(IF index < ent_len(list)
                  THEN Ok(Ptr(identifier.target, list, index))
                  ELSE Err("InvalidCodedTokenOffset", identifier.rid),
                  <<<<list, index>>>>)

\* ValueReadable<T>::read for a simple index T (TypeDefTableOffset, the class
\* column of InterfaceImpl): to_index, then get_table().get(index)
read_index_zero_based(offset, list) ==
    Read(IF offset < ent_len(list)
         THEN Ok(Ptr("Some", list, offset))
         ELSE Err("InvalidEntryRefrence", offset),
         <<<<list, offset>>>>)
read_index(offset, list) ==
    LET index == to_index(offset)
    IN  IF IsErr(index)
        THEN Read(index, <<>>)
        ELSE Read(IF index.val < ent_len(list)
                  THEN Ok(Ptr("Some", list, index.val))
                  ELSE Err("InvalidEntryRefrence", index.val),
                  <<<<list, index.val>>>>)

\* The u32 values handed to decode: both halves at their extremes, and every
\* low half that holds a rid of 0..MaxRows+1 under any tag of the kind
CodedValues(kind) ==
    {U32(hi, lo) : hi \in {0, 65535},
                   lo \in 0..((MaxRows + 2) * 2^BITS[kind] - 1) \cup {65535}}

\* The lists of the entries are each empty or MaxRows long
RowAssignments ==
    {[t \in Tables |-> IF t \in full THEN MaxRows ELSE 0] :
        full \in SUBSET {"module", "module_ref", "assembly_ref", "type_ref",
                         "type_def", "type_spec"}}

TokenStart ==
    /\ table_rows \in RowAssignments
    /\ flags = {}
    /\ version = <<0, 0>>
    /\ coded_token_sizes = Unread
    /\ TokenIdle

\* ReadData<CodedToken<T>>::read hands the column's u32 to CodedToken::decode
CodedToken_decode ==
    /\ token = Unread
    /\ \E kind \in TokenKinds : \E value \in CodedValues(kind) :
          /\ token_kind' = kind
          /\ coded_value' = value
          /\ token' = decode(kind, value)
    /\ UNCHANGED <<field_value, index_field, index_value, rangeVars,
                   headerVars, layoutVars,
                   sigVars,
                   buildVars,
                   heapVars,
                   peVars,
                   typeVars,
                   resolverVars>>

\* EntryReader::read(CodedToken<T>) of the token a row decoder produced
read_token ==
    /\ IsOk(token)
    /\ token_kind \in ResolvedKinds
    /\ field_value = Unread
    /\ field_value' = get_entry_field(token_kind, token.val)
    /\ UNCHANGED <<token_kind, coded_value, token, index_field, index_value,
                   rangeVars, headerVars, layoutVars,
                   sigVars,
                   buildVars,
                   heapVars,
                   peVars,
                   typeVars,
                   resolverVars>>

\* ReadEntry<InterfaceImpl>::from_row, its class column: self.read(row.class)
read_class ==
    /\ index_value = Unread
    /\ \E rid \in 0..(MaxRows + 1) :
          /\ index_field' = rid
          /\ index_value' = read_index(rid, "type_defs")
    /\ UNCHANGED <<token_kind, coded_value, token, field_value, rangeVars,
                   headerVars, layoutVars,
                   sigVars,
                   buildVars,
                   heapVars,
                   peVars,
                   typeVars,
                   resolverVars>>

TokenInit == TokenStart /\ RangeIdle /\ LayoutIdle /\ SigIdle /\ BuildIdle
        /\ HeapIdle
        /\ PeIdle
        /\ TypeIdle
        /\ ResolverIdle

TokenNext == CodedToken_decode \/ read_token \/ read_class

SpecToken == TokenInit /\ [][TokenNext]_vars

Packs(value, bits, rid, tag) ==
    /\ value.hi = rid \div 2^(16 - bits)
    /\ value.lo = (rid % 2^(16 - bits)) * 2^bits + tag

\* The metadata table each target variant names; the Unused variants name none
VariantTable ==
    [Module |-> "module", TypeRef |-> "type_ref", TypeDef |-> "type_def",
     Field |-> "field", Method |-> "method", Param |-> "param",
     InterfaceImpl |-> "interface_impl", MemberRef |-> "member_ref",
     DeclSecurity |-> "decl_security", Property |-> "property",
     Event |-> "event", StandAloneSig |-> "stand_alone_sig",
     ModuleRef |-> "module_ref", TypeSpec |-> "type_spec",
     Assembly |-> "assembly", AssemblyRef |-> "assembly_ref",
     File |-> "file", ExportedType |-> "exported_type",
     ManifestResource |-> "manifest_resource",
     GenericParam |-> "generic_param",
     GenericParamConstraint |-> "generic_param_constraint",
     MethodSpec |-> "method_spec", Document |-> "document",
     LocalScope |-> "local_scope", LocalVariable |-> "local_variable",
     LocalConstant |-> "local_constant", ImportScope |-> "import_scope"]

\* C7: decode splits the value into tag = value & tag_mask and
\* rid = value >> tag_bits and returns the enumeration member numbered tag; it
\* fails with InvalidCodedToken exactly when tag is outside the enumeration;
\* and a resolved reference points into the table the decoded member names,
\* a declared target of the kind.
DecodeStaysInEnum ==
    /\ token # Unread =>
         LET enum == TokenEnum[token_kind]
             tag == coded_value.lo % 2^BITS[token_kind]
         IN  /\ IsOk(token) <=> tag < Len(enum)
             /\ IsErr(token) => token = Err("InvalidCodedToken", coded_value)
             /\ IsOk(token) =>
                  /\ token.val.target = enum[tag + 1]
                  /\ Packs(coded_value, BITS[token_kind], token.val.rid, tag)
    /\ (field_value # Unread /\ IsOk(field_value.result)
          /\ field_value.result.val # PtrNone) =>
         LET ptr == field_value.result.val
         IN  /\ ptr.variant = token.val.target
             /\ \E i \in 1..Len(TokenEnum[token_kind]) :
                    TokenEnum[token_kind][i] = ptr.variant
             /\ EntList[ptr.list] = VariantTable[ptr.variant]
             /\ ptr.index = token.val.rid - 1
             /\ ptr.index < table_rows[VariantTable[ptr.variant]]

\* C7 witness: a ResolutionScope token has been decoded and resolved to the
\* second AssemblyRef row.
DecodedAndResolved ==
    /\ token_kind = "ResolutionScope"
    /\ IsOk(token)
    /\ field_value # Unread
    /\ field_value.result = Ok(Ptr("AssemblyRef", "assembly_ref", 1))

\* encode(tag, rid) = (rid << bits) | tag in one u32
encode(kind, tag, rid) ==
    U32((rid \div 2^(16 - BITS[kind])) % 65536,
        (rid % 2^(16 - BITS[kind])) * 2^BITS[kind] + tag)

\* The rids that fit above the kind's tag bits, sampled at both ends
ValidRids(kind) ==
    LET top == 65535 * 2^(16 - BITS[kind])
    IN  (0..(MaxRows + 1))
        \cup {top + r : r \in 0..(MaxRows + 1)}
        \cup {top + 2^(16 - BITS[kind]) - 1}

\* C8: for every kind, every tag of its enumeration and every rid that fits
\* above the tag bits, decoding encode(tag, rid) returns (tag, rid).
RoundTrip ==
    token # Unread =>
        \A t \in 1..Len(TokenEnum[token_kind]) :
            \A rid \in ValidRids(token_kind) :
                coded_value = encode(token_kind, t - 1, rid)
                    => token = Ok([rid |-> rid,
                                   target |-> TokenEnum[token_kind][t]])

\* C8 witness: the value decoded is the encoding of the last
\* HasCustomAttribute table (MethodSpec, tag 21) with rid 3.
RoundTripSeen ==
    /\ token_kind = "HasCustomAttribute"
    /\ coded_value = encode("HasCustomAttribute", 21, 3)
    /\ token = Ok([rid |-> 3, target |-> "MethodSpec"])

-----------------------------------------------------------------------------
(* coded_tokens.rs: CodedTokenSizes::from_header *)

U16_MAX == 65535

\* a row count (below 2^31) as a u32
to_u32(n) == U32(n \div 65536, n % 65536)

\* x << bits in u32: the bits shifted past bit 31 are lost
shl32(x, bits) ==
    U32((x.hi * 2^bits + x.lo \div 2^(16 - bits)) % 65536,
        (x.lo * 2^bits) % 65536)

\* x > u16::MAX as u32
gt_u16_max(x) == x.hi > 0 \/ x.lo > U16_MAX

\* size_from_rows's second argument for every kind: the rows.<table> list
TokenRows ==
    [TypeDefOrRef |-> <<"type_def", "type_ref", "type_spec">>,
     HasConstant |-> <<"field", "param", "property">>,
     HasCustomAttribute |->
        <<"method", "field", "type_ref", "type_def", "param",
          "interface_impl", "member_ref", "module", "decl_security",
          "property", "event", "stand_alone_sig", "module_ref",
          "type_spec", "assembly", "assembly_ref", "file", "exported_type",
          "manifest_resource", "generic_param", "generic_param_constraint",
          "method_spec", "module", "module">>,
     HasFieldMarshal |-> <<"field", "param">>,
     HasDeclSecurity |-> <<"type_def", "method", "assembly">>,
     MemberRefParent |->
        <<"type_def", "type_ref", "module_ref", "method", "type_spec">>,
     HasSemantic |-> <<"event", "property">>,
     MethodDefOrRef |-> <<"method", "member_ref">>,
     MemberForwarded |-> <<"field", "method">>,
     Implementation |-> <<"file", "assembly_ref", "exported_type">>,
     CustomAttributeType |->
        <<"module", "module", "method", "member_ref", "module">>,
     ResolutionScope |->
        <<"module", "module_ref", "assembly_ref", "type_ref">>,
     TypeOrMethodDef |-> <<"type_def", "method">>,
     HasCustomDebugInformation |->
        <<"method", "field", "type_ref", "type_def", "param",
          "interface_impl", "member_ref", "module", "decl_security",
          "property", "event", "stand_alone_sig", "module_ref",
          "type_spec", "assembly", "assembly_ref", "file", "exported_type",
          "manifest_resource", "generic_param", "generic_param_constraint",
          "method_spec", "document", "local_scope", "local_variable",
          "local_constant", "import_scope">>]

\* rows.iter().map(|i| i.0).max().unwrap_or(0)
max_row(rows) ==
    IF rows = <<>> THEN 0
    ELSE CHOOSE m \in {rows[i] : i \in 1..Len(rows)} :
            \A i \in 1..Len(rows) : rows[i] <= m

\* from_header's inner fn size_from_rows(bits, rows)
size_from_rows(bits, rows) ==
    IF gt_u16_max(shl32(to_u32(max_row(rows)), bits)) THEN "Big" ELSE "Small"

\* CodedTokenSizes::from_header(rows)
CodedTokenSizes_from_header(rows) ==
    [kind \in TokenKinds |->
        size_from_rows(BITS[kind],
                       [i \in 1..Len(TokenRows[kind]) |-> rows[TokenRows[kind][i]]])]

\* The row counts tried for the widths: the two sides of every kind's
\* threshold 2^(16 - bits), of 2^16, and of the values whose shift leaves u32
WidthRowSamples ==
    {0, 1, U16_MAX, U16_MAX + 1, 2147483647}
    \cup {2^(16 - b) - 1 : b \in {1, 2, 3, 5}}
    \cup {2^(16 - b) : b \in {1, 2, 3, 5}}
    \cup {2^(32 - b) - 1 : b \in {2, 3, 5}}
    \cup {2^(32 - b) : b \in {2, 3, 5}}

\* One table holds a sampled count, all others hold none or one row
WidthRows ==
    {[t \in Tables |-> IF t = hot THEN v ELSE rest] :
        hot \in Tables, v \in WidthRowSamples, rest \in {0, 1}}

WidthStart ==
    /\ table_rows \in WidthRows
    /\ flags = {}
    /\ version = <<2, 0>>
    /\ coded_token_sizes = Unread

\* TablesStreamsHeader::from_reader, once the row counts are read:
\* coded_token_sizes: CodedTokenSizes::from_header(&table_rows)
from_header ==
    /\ coded_token_sizes = Unread
    /\ coded_token_sizes' = CodedTokenSizes_from_header(table_rows)
    /\ UNCHANGED <<table_rows, flags, version, layoutVars, rangeVars, tokenVars,
                   sigVars,
                   buildVars,
                   heapVars,
                   peVars,
                   typeVars,
                   resolverVars>>

WidthInit == WidthStart /\ LayoutIdle /\ RangeIdle /\ TokenIdle /\ SigIdle /\ BuildIdle
        /\ HeapIdle
        /\ PeIdle
        /\ TypeIdle
        /\ ResolverIdle

WidthNext == from_header

SpecWidth == WidthInit /\ [][WidthNext]_vars

\* The tables a kind's enumeration declares as targets
DeclaredTargets(kind) ==
    {VariantTable[TokenEnum[kind][i]] :
        i \in {j \in 1..Len(TokenEnum[kind]) :
                 TokenEnum[kind][j] \in DOMAIN VariantTable}}

\* C4 (as stated): the width of every kind is Big exactly when the largest row
\* count among the kind's declared target tables, shifted left by the kind's
\* tag bits, exceeds 0xFFFF (that is, when it is at least 2^(16 - bits)), and
\* Small otherwise.
WidthIsMaxShifted ==
    coded_token_sizes # Unread =>
        \A kind \in TokenKinds :
            LET most == CHOOSE m \in {table_rows[t] : t \in DeclaredTargets(kind)} :
                            \A t \in DeclaredTargets(kind) : table_rows[t] <= m
            IN  /\ coded_token_sizes[kind] \in {"Big", "Small"}
                /\ coded_token_sizes[kind] = "Big" <=> most >= 2^(16 - BITS[kind])

-----------------------------------------------------------------------------
(* streams_offsets.rs, tables.rs: the columns of every table *)

\* impl TableOffsetSize for <offset type>: the table whose row count sizes it
OffsetSizeTable ==
    [ModuleTableOffset |-> "module", TypeRefTableOffset |-> "type_ref",
     TypeDefTableOffset |-> "type_def",
     FieldPtrTableOffset |-> "field_ptr", FieldTableOffset |-> "field",
     MethodPtrTableOffset |-> "method_ptr", MethodTableOffset |-> "method",
     ParamPtrTableOffset |-> "param_ptr", ParamTableOffset |-> "param",
     InterfaceImplTableOffset |-> "interface_impl",
     MemberRefTableOffset |-> "member_ref",
     ConstantTableOffset |-> "constant",
     CustomAttributeTableOffset |-> "custom_attribute",
     FieldMarshalTableOffset |-> "field_marshal",
     DeclSecurityTableOffset |-> "decl_security",
     ClassLayoutTableOffset |-> "class_layout",
     FieldLayoutTableOffset |-> "field_layout",
     StandAloneSigTableOffset |-> "stand_alone_sig",
     EventMapTableOffset |-> "event_map",
     EventPtrTableOffset |-> "event_ptr", EventTableOffset |-> "event",
     PropertyMapTableOffset |-> "property_map",
     PropertyPtrTableOffset |-> "property_ptr",
     PropertyTableOffset |-> "property",
     MethodSemanticsTableOffset |-> "method_semantics",
     MethodImplTableOffset |-> "method_impl",
     ModuleRefTableOffset |-> "module_ref",
     TypeSpecTableOffset |-> "type_spec",
     ImplMapTableOffset |-> "impl_map",
     FieldRVATableOffset |-> "field_rva", ENCLogTableOffset |-> "enc_log",
     ENCMapTableOffset |-> "enc_map", AssemblyTableOffset |-> "assembly",
     AssemblyProcessorTableOffset |-> "assembly_processor",
     AssemblyOSTableOffset |-> "assembly_os",
     AssemblyRefTableOffset |-> "assembly_ref",
     AssemblyRefProcessorTableOffset |-> "assembly_ref_processor",
     AssemblyRefOSTableOffset |-> "assembly_ref_os",
     FileTableOffset |-> "file",
     ExportedTypeTableOffset |-> "exported_type",
     ManifestResourceTableOffset |-> "manifest_resource",
     NestedClassTableOffset |-> "nested_class",
     GenericParamTableOffset |-> "generic_param",
     MethodSpecTableOffset |-> "method_spec",
     GenericParamConstraintTableOffset |-> "generic_param_constraint",
     DocumentTableRowOffset |-> "document",
     MethodDebugInformationTableOffset |-> "method_debug_information",
     LocalScopeTableOffset |-> "local_scope",
     LocalVariableTableOffset |-> "local_variable",
     LocalConstantTableOffset |-> "local_constant",
     ImportScopeTableOffset |-> "import_scope",
     StateMachineMethodTableOffset |-> "state_machine_method",
     CustomDebugInformationTableOffset |-> "custom_debug_information"]

\* impl ReadData<offset type>: the table whose location read_table_offset gets
OffsetReadTable ==
    [ModuleTableOffset |-> "module", TypeRefTableOffset |-> "type_ref",
     TypeDefTableOffset |-> "type_def",
     FieldPtrTableOffset |-> "field_ptr", FieldTableOffset |-> "field",
     MethodPtrTableOffset |-> "method_ptr", MethodTableOffset |-> "method",
     ParamPtrTableOffset |-> "param_ptr", ParamTableOffset |-> "param",
     InterfaceImplTableOffset |-> "interface_impl",
     MemberRefTableOffset |-> "member_ref",
     ConstantTableOffset |-> "constant",
     CustomAttributeTableOffset |-> "custom_attribute",
     FieldMarshalTableOffset |-> "field_marshal",
     DeclSecurityTableOffset |-> "decl_security",
     ClassLayoutTableOffset |-> "class_layout",
     FieldLayoutTableOffset |-> "field_layout",
     StandAloneSigTableOffset |-> "stand_alone_sig",
     EventMapTableOffset |-> "event_map",
     EventPtrTableOffset |-> "event_ptr", EventTableOffset |-> "event",
     PropertyMapTableOffset |-> "property_map",
     PropertyPtrTableOffset |-> "property_ptr",
     PropertyTableOffset |-> "property",
     MethodSemanticsTableOffset |-> "method_semantics",
     MethodImplTableOffset |-> "method_impl",
     ModuleRefTableOffset |-> "module_ref",
     TypeSpecTableOffset |-> "type_spec",
     ImplMapTableOffset |-> "impl_map",
     FieldRVATableOffset |-> "field_rva", ENCLogTableOffset |-> "enc_log",
     ENCMapTableOffset |-> "enc_map", AssemblyTableOffset |-> "assembly",
     AssemblyProcessorTableOffset |-> "assembly_processor",
     AssemblyOSTableOffset |-> "assembly_os",
     AssemblyRefTableOffset |-> "assembly_ref",
     AssemblyRefProcessorTableOffset |-> "assembly_ref_processor",
     AssemblyRefOSTableOffset |-> "assembly_ref_os",
     FileTableOffset |-> "file",
     ExportedTypeTableOffset |-> "exported_type",
     ManifestResourceTableOffset |-> "manifest_resource",
     NestedClassTableOffset |-> "nested_class",
     GenericParamTableOffset |-> "generic_param",
     MethodSpecTableOffset |-> "method_spec",
     GenericParamConstraintTableOffset |-> "generic_param_constraint",
     DocumentTableRowOffset |-> "generic_param",
     MethodDebugInformationTableOffset |-> "method_debug_information",
     LocalScopeTableOffset |-> "local_scope",
     LocalVariableTableOffset |-> "local_variable",
     LocalConstantTableOffset |-> "local_constant",
     ImportScopeTableOffset |-> "import_scope",
     StateMachineMethodTableOffset |-> "state_machine_method",
     CustomDebugInformationTableOffset |-> "custom_debug_information"]

\* CalculateTableSize<row type>: the terms of calculate_table_size_bytes, in
\* order; KindIfV11 is GenericParam's "if version == Version(1, 1)" term
SizeColumns ==
    [module |-> <<"u16", "Strings", "Guid", "Guid", "Guid">>,
     type_ref |-> <<"ResolutionScope", "Strings", "Strings">>,
     type_def |->
        <<"u32", "Strings", "Strings", "TypeDefOrRef", "FieldTableOffset",
          "MethodTableOffset">>,
     field_ptr |-> <<"FieldTableOffset">>,
     field |-> <<"u16", "Strings", "Blob">>,
     method_ptr |-> <<"MethodTableOffset">>,
     method |->
        <<"u32", "u16", "u16", "Strings", "Blob", "ParamTableOffset">>,
     param_ptr |-> <<"ParamPtrTableOffset">>,
     param |-> <<"u16", "u16", "Strings">>,
     interface_impl |-> <<"TypeDefTableOffset", "TypeDefOrRef">>,
     member_ref |-> <<"MemberRefParent", "Strings", "Blob">>,
     constant |-> <<"u8", "u8", "HasConstant", "Blob">>,
     custom_attribute |->
        <<"HasCustomAttribute", "CustomAttributeType", "Blob">>,
     field_marshal |-> <<"HasFieldMarshal", "Blob">>,
     decl_security |-> <<"u16", "HasDeclSecurity", "Blob">>,
     class_layout |-> <<"u16", "u32", "TypeDefTableOffset">>,
     field_layout |-> <<"u32", "FieldTableOffset">>,
     stand_alone_sig |-> <<"Blob">>,
     event_map |-> <<"TypeDefTableOffset", "EventTableOffset">>,
     event_ptr |-> <<"EventTableOffset">>,
     event |-> <<"u16", "Strings", "TypeDefOrRef">>,
     property_map |-> <<"TypeDefTableOffset", "PropertyTableOffset">>,
     property_ptr |-> <<"PropertyTableOffset">>,
     property |-> <<"u16", "Strings", "Blob">>,
     method_semantics |-> <<"u16", "MethodTableOffset", "HasSemantic">>,
     method_impl |->
        <<"TypeDefTableOffset", "MethodDefOrRef", "MethodDefOrRef">>,
     module_ref |-> <<"Strings">>,
     type_spec |-> <<"BlobStreamOffsetTypeSpec">>,
     impl_map |->
        <<"u16", "MemberForwarded", "Strings", "ModuleRefTableOffset">>,
     field_rva |-> <<"u32", "FieldTableOffset">>,
     enc_log |-> <<"u32", "u32">>,
     enc_map |-> <<"u32">>,
     assembly |->
        <<"u32", "u16", "u16", "u16", "u16", "u32", "Blob", "Strings",
          "Strings">>,
     assembly_processor |-> <<"u32">>,
     assembly_os |-> <<"u32", "u32", "u32">>,
     assembly_ref |->
        <<"u16", "u16", "u16", "u16", "u32", "Blob", "Strings", "Strings",
          "Blob">>,
     assembly_ref_processor |-> <<"u32", "AssemblyRefTableOffset">>,
     assembly_ref_os |-> <<"u32", "u32", "u32", "AssemblyRefTableOffset">>,
     file |-> <<"u16", "Strings", "Blob">>,
     exported_type |->
        <<"u32", "TypeDefTableOffset", "Strings", "Strings",
          "Implementation">>,
     manifest_resource |-> <<"u32", "u32", "Strings", "Implementation">>,
     nested_class |-> <<"TypeDefTableOffset", "TypeDefTableOffset">>,
     generic_param |->
        <<"u16", "u16", "TypeOrMethodDef", "Strings", "KindIfV11">>,
     method_spec |-> <<"MethodDefOrRef", "Blob">>,
     generic_param_constraint |->
        <<"GenericParamTableOffset", "TypeDefOrRef">>,
     document |-> <<"Blob", "Guid", "Blob", "Guid">>,
     method_debug_information |-> <<"DocumentTableRowOffset", "Blob">>,
     local_scope |->
        <<"MethodTableOffset", "ImportScopeTableOffset",
          "LocalConstantTableOffset", "u32", "u32">>,
     local_variable |-> <<>>,
     local_constant |-> <<>>,
     import_scope |-> <<>>,
     state_machine_method |-> <<>>,
     custom_debug_information |-> <<>>]

\* ReadData<row type>: the self.read() calls of the row decoder, in order;
\* Unit is a field of type (), KindIfV11 GenericParam's optional kind
ReadColumns ==
    [module |-> <<"u16", "Strings", "Guid", "Guid", "Guid">>,
     type_ref |-> <<"ResolutionScope", "Strings", "Strings">>,
     type_def |->
        <<"u32", "Strings", "Strings", "TypeDefOrRef", "FieldTableOffset",
          "MethodTableOffset">>,
     field_ptr |-> <<"FieldTableOffset">>,
     field |-> <<"u16", "Strings", "Blob">>,
     method_ptr |-> <<"MethodTableOffset">>,
     method |->
        <<"u32", "u16", "u16", "Strings", "Blob", "ParamTableOffset">>,
     param_ptr |-> <<"ParamPtrTableOffset">>,
     param |-> <<"u16", "u16", "Strings">>,
     interface_impl |-> <<"TypeDefTableOffset", "TypeDefOrRef">>,
     member_ref |-> <<"MemberRefParent", "Strings", "Blob">>,
     constant |-> <<"u8", "u8", "HasConstant", "Blob">>,
     custom_attribute |->
        <<"HasCustomAttribute", "CustomAttributeType", "Blob">>,
     field_marshal |-> <<"HasFieldMarshal", "Blob">>,
     decl_security |-> <<"u16", "HasDeclSecurity", "Blob">>,
     class_layout |-> <<"u16", "u32", "TypeDefTableOffset">>,
     field_layout |-> <<"u32", "FieldTableOffset">>,
     stand_alone_sig |-> <<"Blob">>,
     event_map |-> <<"TypeDefTableOffset", "EventTableOffset">>,
     event_ptr |-> <<"EventTableOffset">>,
     event |-> <<"u16", "Strings", "TypeDefOrRef">>,
     property_map |-> <<"TypeDefTableOffset", "PropertyTableOffset">>,
     property_ptr |-> <<"PropertyTableOffset">>,
     property |-> <<"u16", "Strings", "Blob">>,
     method_semantics |-> <<"u16", "MethodTableOffset", "HasSemantic">>,
     method_impl |->
        <<"TypeDefTableOffset", "MethodDefOrRef", "MethodDefOrRef">>,
     module_ref |-> <<"Strings">>,
     type_spec |-> <<"BlobStreamOffsetTypeSpec">>,
     impl_map |->
        <<"u16", "MemberForwarded", "Strings", "ModuleRefTableOffset">>,
     field_rva |-> <<"u32", "FieldTableOffset">>,
     enc_log |-> <<"u32", "u32">>,
     enc_map |-> <<"u32">>,
     assembly |->
        <<"u32", "u16", "u16", "u16", "u16", "u32", "Blob", "Strings",
          "Strings">>,
     assembly_processor |-> <<"u32">>,
     assembly_os |-> <<"u32", "u32", "u32">>,
     assembly_ref |->
        <<"u16", "u16", "u16", "u16", "u32", "Blob", "Strings", "Strings",
          "Blob">>,
     assembly_ref_processor |-> <<"u32", "AssemblyRefTableOffset">>,
     assembly_ref_os |-> <<"u32", "u32", "u32", "AssemblyRefTableOffset">>,
     file |-> <<"u16", "Strings", "Blob">>,
     exported_type |->
        <<"u32", "TypeDefTableOffset", "Strings", "Strings",
          "Implementation">>,
     manifest_resource |-> <<"u32", "u32", "Strings", "Implementation">>,
     nested_class |-> <<"TypeDefTableOffset", "TypeDefTableOffset">>,
     generic_param |->
        <<"u16", "u16", "TypeOrMethodDef", "Strings", "KindIfV11">>,
     method_spec |-> <<"MethodDefOrRef", "Blob">>,
     generic_param_constraint |->
        <<"GenericParamTableOffset", "TypeDefOrRef">>,
     document |-> <<"Blob", "Guid", "Blob", "Guid">>,
     method_debug_information |-> <<"DocumentTableRowOffset", "Blob">>,
     local_scope |->
        <<"MethodTableOffset", "ImportScopeTableOffset",
          "LocalVariableTableOffset", "LocalConstantTableOffset", "u32",
          "u32">>,
     local_variable |-> <<"Unit", "Unit", "Unit">>,
     local_constant |-> <<"Unit", "Unit">>,
     import_scope |-> <<"Unit", "Unit">>,
     state_machine_method |-> <<"Unit", "Unit">>,
     custom_debug_information |-> <<"Unit", "Unit", "Unit">>]

-----------------------------------------------------------------------------
(* calculator.rs, metadata.rs, streams_offsets.rs: the widths behind the   *)
(* row size of the layout                                                  *)

\* ValueSize::byte_size
byte_size(size) == IF size = "Big" THEN 4 ELSE 2

\* SizeCalculator::size_of_prim: core::mem::size_of::<T>()
PrimSize == [u8 |-> 1, u16 |-> 2, u32 |-> 4]

\* The MDStreamFlags bit that widens each heap offset
HeapFlag ==
    [Strings |-> "BigStrings", Guid |-> "BigGUID", Blob |-> "BigBlob",
     BlobStreamOffsetTypeSpec |-> "BigBlob"]

\* StreamsOffsetSize::streams_offset_size(flags)
streams_offset_size(heap, fl) == IF HeapFlag[heap] \in fl THEN "Big" ELSE "Small"

\* TableRowCount::is_large and TableRowCount::row_size
is_large(rows) == rows > U16_MAX
row_size(rows) == IF is_large(rows) THEN "Big" ELSE "Small"

\* TableOffsetSize::table_offset_size(rows)
table_offset_size(offset, rows) == row_size(rows[OffsetSizeTable[offset]])

\* One term of calculate_table_size_bytes
column_size(col) ==
    IF col \in DOMAIN PrimSize THEN PrimSize[col]
    ELSE IF col \in DOMAIN HeapFlag THEN byte_size(streams_offset_size(col, flags))
    ELSE IF col \in TokenKinds THEN byte_size(coded_token_sizes[col])
    ELSE IF col = "KindIfV11"
         THEN IF version = <<1, 1>>
              THEN byte_size(coded_token_sizes["TypeDefOrRef"]) ELSE 0
    ELSE byte_size(table_offset_size(col, table_rows))

RECURSIVE SumOver(_, _)
SumOver(width(_), cols) ==
    IF cols = <<>> THEN 0 ELSE width(Head(cols)) + SumOver(width, Tail(cols))

\* CalculateTableSize<row type>::calculate_table_size_bytes
calculate_table_size_bytes(table) == SumOver(column_size, SizeColumns[table])

-----------------------------------------------------------------------------
(* calculator.rs, metadata.rs: TableLocations::from_metadata *)

TableLocation(table, start_offset, rows, size) ==
    [table |-> table, start_offset |-> start_offset, rows |-> rows,
     row_size |-> size]

\* calculate_location: self.index += row_size * rows.0 as usize
advance_one_row(index, size, rows) == index + size
advance(index, size, rows) == index + size * rows

\* The position of a table in the canonical order, and its location
TableIndex(table) == CHOOSE i \in 1..Len(TableNames) : TableNames[i] = table
Location(table) == table_locations[TableIndex(table)]

\* The header: every heap-size flag combination, versions 1.1 and 2.0, and
\* row counts where one table is empty, single, at or over u16::MAX while
\* all others hold one row
LayoutRows ==
    {[t \in Tables |-> IF t = hot THEN v ELSE 1] :
        hot \in Tables, v \in {0, 1, U16_MAX, U16_MAX + 1}}

LayoutStart ==
    /\ table_rows \in LayoutRows
    /\ flags \in SUBSET {"BigStrings", "BigGUID", "BigBlob"}
    /\ version \in {<<1, 1>>, <<2, 0>>}
    /\ coded_token_sizes = Unread
    /\ calc_index = 0           \* TablePositionCalculator::new
    /\ table_locations = <<>>
    /\ row_read = Unread

\* One field initialiser of TableLocations::from_metadata, in source order:
\* calc.calculate_location::<row type>(rows.<table>)
calculate_location ==
    /\ coded_token_sizes # Unread
    /\ Len(table_locations) < Len(TableNames)
    /\ LET table == TableNames[Len(table_locations) + 1]
           start_offset == calc_index
           size == calculate_table_size_bytes(table)
       IN  /\ calc_index' = advance(calc_index, size, table_rows[table])
           /\ table_locations' =
                Append(table_locations,
                       TableLocation(table, start_offset, table_rows[table], size))
    /\ UNCHANGED <<headerVars, row_read, rangeVars, tokenVars,
                   sigVars,
                   buildVars,
                   heapVars,
                   peVars,
                   typeVars,
                   resolverVars>>

-----------------------------------------------------------------------------
(* reader.rs, tables.rs, streams_offsets.rs: the row decoders *)

\* DataReader: the bytes a read of each fixed-size type consumes
PrimRead == [u8 |-> 1, u16 |-> 2, u32 |-> 4, Unit |-> 0]

\* A column read as u32 when its size is Big and as u16 otherwise
read_width(size) == IF size = "Big" THEN PrimRead["u32"] ELSE PrimRead["u16"]

\* TablesStreamReader::read_table_offset(target_table_size)
read_table_offset(target_table_size) ==
    IF is_large(target_table_size.rows) THEN PrimRead["u32"] ELSE PrimRead["u16"]

\* The bytes one self.read() of a row decoder consumes
column_read(col) ==
    IF col \in DOMAIN PrimRead THEN PrimRead[col]
    ELSE IF col \in DOMAIN HeapFlag THEN read_width(streams_offset_size(col, flags))
    ELSE IF col \in TokenKinds THEN read_width(coded_token_sizes[col])
    ELSE IF col = "KindIfV11"
         THEN IF version = <<1, 1>>
              THEN read_width(coded_token_sizes["TypeDefOrRef"]) ELSE 0
    ELSE read_table_offset(Location(OffsetReadTable[col]))

\* ReadData<row type>::read: the bytes consumed by one row, or the error of
\* the Module and Assembly decoders when their table has not exactly one row
read_row(table) ==
    IF table \in {"module", "assembly"} /\ Location(table).rows # 1
    THEN Err("BadImageFormat", 0)
    ELSE Ok(SumOver(column_read, ReadColumns[table]))

\* TableRowsIterator::next on a table that has rows: self.reader.read()
TableRowsIterator_next ==
    /\ Len(table_locations) = Len(TableNames)
    /\ row_read = Unread
    /\ \E table \in Tables :
          /\ table_rows[table] > 0
          /\ row_read' = [tag |-> "Row", table |-> table, result |-> read_row(table)]
    /\ UNCHANGED <<headerVars, calc_index, table_locations, rangeVars, tokenVars,
                   sigVars,
                   buildVars,
                   heapVars,
                   peVars,
                   typeVars,
                   resolverVars>>

LayoutInit == LayoutStart /\ RangeIdle /\ TokenIdle /\ SigIdle /\ BuildIdle
        /\ HeapIdle
        /\ PeIdle
        /\ TypeIdle
        /\ ResolverIdle

LayoutNext == from_header \/ calculate_location \/ TableRowsIterator_next

SpecLayout == LayoutInit /\ [][LayoutNext]_vars

\* The end of a located table: its start offset plus its byte span
EndOf(loc) == loc.start_offset + loc.rows * loc.row_size

\* C5: walking the tables in canonical order, each table's start offset is the
\* previous table's start offset plus that table's row_count * row_size (the
\* first starts at 0); start offsets never decrease; the byte span of a table
\* is row_count * row_size; and a table without rows spans no bytes, so the
\* next table starts where it starts.
LayoutMonotone ==
    /\ \A i \in 1..Len(table_locations) :
         LET loc == table_locations[i]
         IN  /\ loc.table = TableNames[i]
             /\ loc.rows = table_rows[loc.table]
             /\ i = 1 => loc.start_offset = 0
             /\ i > 1 =>
                  LET prev == table_locations[i - 1]
                  IN  /\ loc.start_offset = EndOf(prev)
                      /\ prev.start_offset <= loc.start_offset
                      /\ loc.start_offset - prev.start_offset
                            = prev.rows * prev.row_size
                      /\ prev.rows = 0 => loc.start_offset = prev.start_offset
    /\ table_locations # <<>> =>
         calc_index = EndOf(table_locations[Len(table_locations)])

\* C5 witness: all tables are located, TypeDef has no rows, and FieldPtr (the
\* table after it) starts where TypeDef starts, past the tables before them,
\* while Field starts after FieldPtr's one row.
LayoutWithEmptyTable ==
    /\ Len(table_locations) = Len(TableNames)
    /\ table_rows["type_def"] = 0
    /\ Location("type_def").start_offset > 0
    /\ Location("field_ptr").start_offset = Location("type_def").start_offset
    /\ Location("field").start_offset > Location("field_ptr").start_offset
    /\ calc_index >= Location("field").start_offset + Location("field").row_size

\* C6 (as stated): the row size the layout uses for a table equals the number
\* of bytes the table's row decoder consumes when it reads one row.
RowSizeIsBytesRead ==
    (row_read # Unread /\ IsOk(row_read.result))
        => row_read.result.val = Location(row_read.table).row_size

-----------------------------------------------------------------------------
(* md/streams/blob_stream/reader.rs: the #Blob heap and its readers        *)
(*                                                                         *)
(* A reader is a record of the bytes it was sliced to, its                 *)
(* reader_heap_offset, the position of its DataReader and the              *)
(* recursion_count of the SignatureReader.  A read returns a Result and    *)
(* the reader it leaves behind.                                            *)

ROk(v, rd) == [tag |-> "Ok", val |-> v, rd |-> rd]
RErr(kind, at, rd) == [tag |-> "Err", val |-> <<kind, at>>, rd |-> rd]

\* SignatureReader::new(BlobStream { DataReader::new(bytes), reader_heap_offset })
SignatureReader(bytes, reader_heap_offset) ==
    [bytes |-> bytes, heap_offset |-> reader_heap_offset, pos |-> 0,
     count |-> 0]

\* DataReader::remaning
remaning(rd) == Len(rd.bytes) - rd.pos

\* ReadData<u8> for DataReader
read_u8(rd) ==
    IF rd.pos < Len(rd.bytes)
    THEN ROk(rd.bytes[rd.pos + 1], [rd EXCEPT !.pos = @ + 1])
    ELSE RErr("NotEnoughDataLeft", 1, rd)

\* BlobStream::read_compressed_u32
read_compressed_u32_mask3(rd) ==
    LET b == read_u8(rd)
        b2 == read_u8(b.rd)
        b3 == read_u8(b2.rd)
        b4 == read_u8(b3.rd)
        fail == RErr("InvalidStreamIndex", rd.pos + rd.heap_offset, rd)
    IN  IF IsErr(b) THEN fail
        ELSE IF b.val < 128 THEN b
        ELSE IF IsErr(b2) THEN fail
        ELSE IF b.val < 192 THEN ROk((b.val % 128) * 256 + b2.val, b2.rd)
        ELSE IF IsErr(b3) \/ IsErr(b4) THEN fail
        ELSE ROk((b.val % 32) * 16777216 + b2.val * 65536 + b3.val * 256
                 + b4.val, b4.rd)
read_compressed_u32(rd) ==
    LET last_pos == rd.pos + rd.heap_offset
        fail == RErr("InvalidStreamIndex", last_pos, rd)
        b == read_u8(rd)
    IN  IF IsErr(b) THEN fail
        ELSE IF b.val < 128                  \* (b & 0xC0) & 0x80 == 0
        THEN b
        ELSE IF b.val < 192                  \* b & 0xC0 == 0x80
        THEN LET b2 == read_u8(b.rd)
             IN  IF IsErr(b2) THEN fail
                 ELSE ROk((b.val % 128) * 256 + b2.val, b2.rd)
        ELSE LET b2 == read_u8(b.rd)
             IN  IF IsErr(b2) THEN fail
                 ELSE LET b3 == read_u8(b2.rd)
                      IN  IF IsErr(b3) THEN fail
                          ELSE LET b4 == read_u8(b3.rd)
                               IN  IF IsErr(b4) THEN fail
                                   ELSE ROk((b.val % 64) * 16777216
                                            + b2.val * 65536 + b3.val * 256
                                            + b4.val, b4.rd)

\* BlobStream::split_from of the whole heap (position 0, heap offset 0):
\* &self.reader.remaning_slice()[pos..] panics when pos is past the end
split_from(heap, pos) ==
    IF pos > Len(heap)
    THEN Panic("range start index out of range for slice")
    ELSE Ok(SignatureReader(SubSeq(heap, pos + 1, Len(heap)), pos))

\* BlobStream::get_signature_reader, then SignatureReader::new.  A length
\* that cannot be read is reported at self.heap_position(), which is 0 for
\* the heap's own stream.
get_signature_reader(heap, offset) ==
    LET split == split_from(heap, offset)
        new_reader == split.val
        len == read_compressed_u32(new_reader)
    IN  IF IsPanic(split) THEN split
        ELSE IF IsErr(len)
        THEN Err("InvalidStreamIndex", 0)
        ELSE IF len.val > remaning(len.rd)
        THEN Err("InvalidStreamIndex", offset)
        ELSE Ok(SignatureReader(SubSeq(new_reader.bytes, len.rd.pos + 1,
                                       len.rd.pos + len.val),
                                new_reader.heap_offset + len.val))

RECURSTION_LIMIT == 100

\* SignatureReader::recursion_inc
recursion_inc(rd) ==
    LET r == [rd EXCEPT !.count = @ + 1]
    IN  IF r.count > RECURSTION_LIMIT
        THEN RErr("RecursionLimitReached", 0, r)
        ELSE ROk(<<>>, r)

\* SignatureReader::recursion_dec
recursion_dec(rd) == [rd EXCEPT !.count = IF @ > 0 THEN @ - 1 ELSE 0]

-----------------------------------------------------------------------------
(* md/streams/blob_stream/signature.rs *)

\* enum ElementType, the discriminants 0x00..0x21 in order
ElementTypeLow ==
    <<"End", "Void", "Boolean", "Char", "I1", "U1", "I2", "U2", "I4", "U4",
      "I8", "U8", "R4", "R8", "String", "Ptr", "ByRef", "ValueType", "Class",
      "Var", "Array", "GenericInst", "TypedByRef", "ValueArray", "I", "U", "R",
      "FnPtr", "Object", "SZArray", "MVar", "CModReqd", "CModOpt", "Internal">>

\* ElementType::from_u8
ElementType_from_u8(b) ==
    IF b < Len(ElementTypeLow) THEN Some(ElementTypeLow[b + 1])
    ELSE IF b = 63 THEN Some("Module")        \* 0x3F
    ELSE IF b = 65 THEN Some("Sentinel")      \* 0x41
    ELSE IF b = 69 THEN Some("Pinned")        \* 0x45
    ELSE None

\* ReadData<ElementType> for BlobStream
read_ElementType(rd) ==
    LET b == read_u8(rd)
    IN  IF IsErr(b) THEN b
        ELSE LET e == ElementType_from_u8(b.val)
             IN  IF e.some THEN ROk(e.v, b.rd)
                 ELSE RErr("InvalidSignatureElementType", b.val, b.rd)

\* enum CallingConvention, the discriminants 0x0..0xB in order
CallingConvention ==
    <<"Default", "C", "StdCall", "ThisCall", "FastCall", "VarArg", "Field",
      "LocalSig", "Property", "Unmanaged", "GenericInst", "NativeVarArg">>

\* CallingConvention::from_u8
CallingConvention_from_u8(b) ==
    IF b < Len(CallingConvention) THEN Some(CallingConvention[b + 1]) ELSE None

\* SignatureFlags::from_bits_retain(sig_type & !CALLING_CONVENTION_MASK)
SignatureFlags(sig_type) ==
    {f \in {"Generic", "HasThis", "ExplicitThis", "ReservedByCLR"} :
        (sig_type \div [Generic |-> 16, HasThis |-> 32, ExplicitThis |-> 64,
                        ReservedByCLR |-> 128][f]) % 2 = 1}

\* The element types ReadData<TypeSigDef>::read maps to a variant without
\* reading further, and the variant of each
PlainType ==
    [Void |-> "Void", Boolean |-> "Boolean", Char |-> "Char", I1 |-> "Byte",
     U1 |-> "SByte", I2 |-> "Int16", U2 |-> "UInt16", I4 |-> "Int32",
     U4 |-> "UInt32", I8 |-> "Int64", U8 |-> "UInt64", R4 |-> "Single",
     R8 |-> "Double", String |-> "String", TypedByRef |-> "TypedRefrence",
     I |-> "IntPtr", U |-> "UIntPtr", Object |-> "Object",
     Sentinel |-> "Sentinel", Internal |-> "Internal"]

\* The variants that box one inner TypeSigDef read right after the element
BoxedType ==
    [Ptr |-> "Ptr", ByRef |-> "ByRef", SZArray |-> "SZArray",
     Pinned |-> "Pinned"]

\* The variants that hold a resolved TypeDefOrRef coded token
TokenType ==
    [ValueType |-> "ValueType", Class |-> "Class", CModReqd |-> "CModReq",
     CModOpt |-> "CModOpt"]

MAX_ARRAY_RANK == 64

\* A Result of another shape carried out of a read that left reader rd
RFrom(r, rd) == [tag |-> r.tag, val |-> r.val, rd |-> rd]

\* ReadData<CodedToken<T>> for SignatureReader
read_CodedToken(rd, kind) ==
    LET v == read_compressed_u32(rd)
    IN  IF IsErr(v) THEN v
        ELSE RFrom(decode(kind, to_u32(v.val)), v.rd)

\* for _ in 0..n { v.push(self.reader.read_compressed_u32()?) }
RECURSIVE read_compressed_list(_, _, _)
read_compressed_list(rd, n, acc) ==
    IF n = 0 THEN ROk(acc, rd)
    ELSE LET v == read_compressed_u32(rd)
         IN  IF IsErr(v) THEN v
             ELSE read_compressed_list(v.rd, n - 1, Append(acc, v.val))

(* The decoder is recursive: a read of a TypeSigDef or of a SignatureDef   *)
(* calls self.read() for the types and signatures nested in it.  The call  *)
(* stack of these reads is sig_stack: a read that reaches a nested         *)
(* self.read() pushes a frame that holds its local variables and the       *)
(* place (at) it waits in, and takes them up again when the nested read    *)
(* returns.  What a read does until it returns or calls is its outcome:    *)

\* return Ok(v), the reader left at rd
Ret(v, rd) == [out |-> "Ret", val |-> v, rd |-> rd]
\* return Err(..): every caller hands it on with `?`
Fail(r) == [out |-> "Fail", err |-> [tag |-> "Err", val |-> r.val]]
\* self.read::<TypeSigDef>() / self.read::<SignatureDef>(), to resume at frame
CallType(frame, rd) ==
    [out |-> "Call", read |-> "TypeSigDef", frame |-> frame, rd |-> rd]
CallSig(frame, rd) ==
    [out |-> "Call", read |-> "SignatureDef", frame |-> frame, rd |-> rd]

\* ReadData<TypeSigDef> for SignatureReader, up to its first nested read
read_TypeSigDef(rd) ==
    LET element_type == read_ElementType(rd)
        e == element_type.val
        r1 == element_type.rd
    IN  IF IsErr(element_type) THEN Fail(element_type)
        ELSE IF e \in DOMAIN PlainType
        THEN Ret([variant |-> PlainType[e]], r1)
        ELSE IF e \in DOMAIN BoxedType
        THEN CallType([at |-> "Boxed", variant |-> BoxedType[e]], r1)
        ELSE IF e \in DOMAIN TokenType
        THEN LET tok == read_CodedToken(r1, "TypeDefOrRef")
             IN  IF IsErr(tok) THEN Fail(tok)
                 ELSE LET ptr == get_entry_field("TypeDefOrRef", tok.val).result
                      IN  IF IsErr(ptr) THEN Fail(ptr)
                          ELSE Ret([variant |-> TokenType[e], ptr |-> ptr.val],
                                   tok.rd)
        ELSE IF e = "FnPtr"
        THEN CallSig([at |-> "FnPtr"], r1)
        ELSE IF e \in {"Var", "MVar"}
        THEN LET index == read_compressed_u32(r1)
             IN  IF IsErr(index) THEN Fail(index)
                 ELSE Ret([variant |-> e, generic_param_index |-> index.val],
                          index.rd)
        ELSE IF e = "ValueArray"
        THEN LET len == read_compressed_u32(r1)
             IN  IF IsErr(len) THEN Fail(len)
                 ELSE CallType([at |-> "ValueArray", len |-> len.val], len.rd)
        ELSE IF e = "Module"
        THEN LET index == read_compressed_u32(r1)
             IN  IF IsErr(index) THEN Fail(index)
                 ELSE CallType([at |-> "Module", index |-> index.val], index.rd)
        ELSE IF e = "GenericInst"
        THEN CallType([at |-> "GenericInst.ty"], r1)
        ELSE IF e = "Array"
        THEN CallType([at |-> "Array.ty"], r1)
        ELSE Ret([variant |-> "Unknown", element_type |-> e], r1)  \* End | R

\* ReadData<TypeSigDef> for SignatureReader, from the return of the nested
\* read it waited for in frame: v is what that read returned
resume_TypeSigDef(frame, v, rd) ==
    IF frame.at = "Boxed"
    THEN Ret([variant |-> frame.variant, boxed |-> v], rd)
    ELSE IF frame.at = "FnPtr"
    THEN Ret([variant |-> "FnPtr", boxed |-> v], rd)
    ELSE IF frame.at = "ValueArray"
    THEN Ret([variant |-> "ValueArray", len |-> frame.len, next_sig |-> v], rd)
    ELSE IF frame.at = "Module"
    THEN Ret([variant |-> "Module", index |-> frame.index, ty |-> v], rd)
    ELSE IF frame.at = "GenericInst.ty"
    THEN LET n == read_compressed_u32(rd)
         IN  IF IsErr(n) THEN Fail(n)
             ELSE IF n.val = 0
             THEN Ret([variant |-> "GenericInst", ty |-> v,
                       generic_args |-> <<>>], n.rd)
             ELSE CallType([at |-> "GenericInst.generic_args", ty |-> v,
                            n |-> n.val, generic_args |-> <<>>], n.rd)
    ELSE IF frame.at = "GenericInst.generic_args"
    THEN LET generic_args == Append(frame.generic_args, v)
         IN  IF frame.n = 1
             THEN Ret([variant |-> "GenericInst", ty |-> frame.ty,
                       generic_args |-> generic_args], rd)
             ELSE CallType([frame EXCEPT !.n = @ - 1,
                                         !.generic_args = generic_args], rd)
    ELSE \* frame.at = "Array.ty"
         LET rank == read_compressed_u32(rd)
         IN  IF IsErr(rank) THEN Fail(rank)
             ELSE IF rank.val > MAX_ARRAY_RANK
             THEN Fail(RErr("BadImageFormat", 0, rank.rd))
             ELSE IF rank.val = 0
             THEN Ret([variant |-> "Array", ty |-> v,
                       size |-> [variant |-> "SingleDimention"]], rank.rd)
             ELSE LET num == read_compressed_u32(rank.rd)
                  IN  IF IsErr(num) THEN Fail(num)
                      ELSE IF num.val > rank.val
                      THEN Fail(RErr("BadImageFormat", 1, num.rd))
                      ELSE LET sizes == read_compressed_list(num.rd, num.val, <<>>)
                           IN  IF IsErr(sizes) THEN Fail(sizes)
                               ELSE LET lower_bounds ==
                                            read_compressed_list(sizes.rd, num.val, <<>>)
                                    IN  IF IsErr(lower_bounds) THEN Fail(lower_bounds)
                                        ELSE Ret([variant |-> "Array", ty |-> v,
                                                  size |-> [variant |-> "MultiDimention",
                                                            rank |-> rank.val,
                                                            sizes |-> sizes.val,
                                                            lower_bounds |-> lower_bounds.val]],
                                                 lower_bounds.rd)

\* The end of ReadData<SignatureDef>::read: recursion_dec, Ok(SignatureDef)
SignatureDef(sigflags, variant, sig, rd) ==
    Ret([flags |-> sigflags,
         calling_convention |-> [variant |-> variant, sig |-> sig]],
        recursion_dec(rd))

\* MethodSig { .. } of the local variables a frame m holds
MethodSig(m) ==
    [return_type |-> m.return_type, generic_params |-> m.generic_params,
     parameters |-> m.parameters,
     params_after_sentinel |-> m.params_after_sentinel]

\* LocalSig { locals } / GenericInstMethodSig { generic_args }
TypeList(variant, types) ==
    IF variant = "LocalSig" THEN [locals |-> types]
    ELSE [generic_args |-> types]

\* The head of `for _ in 0..num_params` in MethodSig::from_reader with m.n
\* iterations left: the next reader.read(), or the Ok(Self { .. }) after it
MethodSig_for(m, rd) ==
    IF m.n = 0
    THEN SignatureDef(m.flags, m.variant, MethodSig(m), rd)
    ELSE CallType([m EXCEPT !.at = "MethodSig.ty"], rd)

\* `if count > 0x1000` of ReadData<LocalSig> and ReadData<GenericInstMethodSig>
no_ceiling(count) == FALSE
over_ceiling(count) == count > 4096

\* ReadData<SignatureDef> for SignatureReader, with the
\* SignatureCallingConvention::from_reader, MethodSig::from_reader,
\* ReadData<LocalSig> and ReadData<GenericInstMethodSig> it calls, up to
\* the first nested read
read_SignatureDef(rd) ==
    LET inc == recursion_inc(rd)
        sig_type == read_u8(inc.rd)
        cc == CallingConvention_from_u8(sig_type.val % 16)
        sigflags == SignatureFlags(sig_type.val)
        r1 == sig_type.rd
    IN  IF IsErr(inc) THEN Fail(inc)
        ELSE IF IsErr(sig_type) THEN Fail(sig_type)
        ELSE IF ~cc.some
        THEN Fail(RErr("InvalidSignatureCallingConvention",
                       sig_type.val % 16, r1))
        ELSE IF cc.v = "Field"
        THEN CallType([at |-> "Field", flags |-> sigflags], r1)
        ELSE IF cc.v \in {"LocalSig", "GenericInst"}
        THEN LET count == read_compressed_u32(r1)
                 variant == IF cc.v = "LocalSig" THEN "LocalSig"
                            ELSE "GenericInstMethod"
             IN  IF IsErr(count) THEN Fail(count)
                 ELSE IF over_ceiling(count.val)
                 THEN Fail(RErr("BadImageFormat", 2, count.rd))
                 ELSE IF count.val = 0
                 THEN SignatureDef(sigflags, variant, TypeList(variant, <<>>),
                                   count.rd)
                 ELSE CallType([at |-> "TypeList", flags |-> sigflags,
                                variant |-> variant, n |-> count.val,
                                types |-> <<>>], count.rd)
        ELSE \* the method conventions and Property: MethodSig::from_reader
             LET generic_params ==
                     IF "Generic" \in sigflags
                     THEN LET g == read_compressed_u32(r1)
                          IN  IF IsErr(g) THEN g ELSE ROk(Some(g.val), g.rd)
                     ELSE ROk(None, r1)
                 num_params == read_compressed_u32(generic_params.rd)
             IN  IF IsErr(generic_params) THEN Fail(generic_params)
                 ELSE IF IsErr(num_params) THEN Fail(num_params)
                 ELSE CallType([at |-> "MethodSig.return_type",
                                flags |-> sigflags,
                                variant |-> IF cc.v = "Property" THEN "Property"
                                            ELSE "Method",
                                generic_params |-> generic_params.val,
                                n |-> num_params.val,
                                return_type |-> <<>>,
                                parameters |-> <<>>,
                                params_after_sentinel |-> None],
                               num_params.rd)

\* ReadData<SignatureDef>::read and the readers it calls, from the return
\* of the nested read waited for in frame
resume_SignatureDef(frame, v, rd) ==
    IF frame.at = "Field"
    THEN SignatureDef(frame.flags, "Field", v, rd)
    ELSE IF frame.at = "TypeList"
    THEN LET types == Append(frame.types, v)
         IN  IF frame.n = 1
             THEN SignatureDef(frame.flags, frame.variant,
                               TypeList(frame.variant, types), rd)
             ELSE CallType([frame EXCEPT !.n = @ - 1, !.types = types], rd)
    ELSE IF frame.at = "MethodSig.return_type"
    THEN IF frame.n > remaning(rd)
         THEN SignatureDef(frame.flags, frame.variant,
                           [return_type |-> v, generic_params |-> None,
                            parameters |-> <<>>,
                            params_after_sentinel |-> None], rd)
         ELSE MethodSig_for([frame EXCEPT !.return_type = v], rd)
    ELSE IF frame.at = "MethodSig.ty"
    THEN IF v.variant = "Sentinel"
         THEN CallType([frame EXCEPT !.at = "MethodSig.senti_vec"], rd)
         ELSE IF frame.params_after_sentinel.some
         THEN MethodSig_for(
                  [frame EXCEPT !.n = @ - 1,
                                !.params_after_sentinel =
                                    Some(Append(@.v, v))], rd)
         ELSE MethodSig_for(
                  [frame EXCEPT !.n = @ - 1,
                                !.parameters = Append(@, v)], rd)
    ELSE \* frame.at = "MethodSig.senti_vec": senti_vec.push(reader.read()?),
         \* then senti_params.push(ty) with ty the Sentinel just matched
         LET senti_vec == IF frame.params_after_sentinel.some
                          THEN frame.params_after_sentinel.v ELSE <<>>
             ty == [variant |-> "Sentinel"]
         IN  MethodSig_for(
                 [frame EXCEPT !.n = @ - 1,
                               !.params_after_sentinel =
                                   Some(Append(Append(senti_vec, v), ty))], rd)

\* The places a TypeSigDef read waits in; the others are of SignatureDef
TypeSigDefFrames ==
    {"Boxed", "FnPtr", "ValueArray", "Module", "GenericInst.ty",
     "GenericInst.generic_args", "Array.ty"}

-----------------------------------------------------------------------------
(* io/entry_reader.rs: reading the signature a blob column points to *)

MaxNest == 102      \* nesting constructs wrapped around one type
MaxParams == 3      \* parameter-list bytes of a method signature

\* The compressed length prefix of a blob of n bytes, n < 0x4000
write_compressed_u32(n) ==
    IF n < 128 THEN <<n>> ELSE <<128 + n \div 256, n % 256>>

\* A #Blob heap: the empty blob at index 0 and the blob sig at index 1
HeapOf(sig) == <<0>> \o write_compressed_u32(Len(sig)) \o sig

\* The bytes that open and close one level of every nesting construct:
\* FNPTR is followed by a Default-convention method signature of no
\* parameters whose return type is the nested type; ARRAY closes with
\* rank 0 and GENERICINST with 0 arguments
NestOpen ==
    [Ptr |-> <<15>>, ByRef |-> <<16>>, SZArray |-> <<29>>, Pinned |-> <<69>>,
     Array |-> <<20>>, GenericInst |-> <<21>>, FnPtr |-> <<27, 0, 0>>,
     ValueArray |-> <<23, 1>>, Module |-> <<63, 1>>]
NestClose ==
    [Ptr |-> <<>>, ByRef |-> <<>>, SZArray |-> <<>>, Pinned |-> <<>>,
     Array |-> <<0>>, GenericInst |-> <<0>>, FnPtr |-> <<>>,
     ValueArray |-> <<>>, Module |-> <<>>]

\* leaf under n levels of kind: n openings, the leaf, n closings
Nested(kind, n, leaf) ==
    LET open == NestOpen[kind]
        close == NestClose[kind]
        head == n * Len(open)
        body == head + Len(leaf)
    IN  [i \in 1..(body + n * Len(close)) |->
            IF i <= head THEN open[((i - 1) % Len(open)) + 1]
            ELSE IF i <= body THEN leaf[i - head]
            ELSE close[((i - body - 1) % Len(close)) + 1]]

\* Sequences of at most n bytes drawn from S
RECURSIVE SeqsUpTo(_, _)
SeqsUpTo(S, n) ==
    IF n = 0 THEN {<<>>}
    ELSE LET shorter == SeqsUpTo(S, n - 1)
         IN  shorter \cup {Append(s, b) : s \in shorter, b \in S}

\* Type signatures: an I4 under 0..MaxNest levels of one nesting construct
TypeSigs == {Nested(kind, n, <<8>>) : kind \in DOMAIN NestOpen, n \in 0..MaxNest}

\* Method signatures: a convention byte (Default, VarArg, HasThis|VarArg, or
\* Generic|Default with one generic parameter), a parameter count, the
\* return type VOID and a parameter list of I4, R8 and SENTINEL bytes
MethodSigs ==
    {conv \o <<num_params, 1>> \o params :
        conv \in {<<0>>, <<5>>, <<37>>, <<16, 1>>},
        num_params \in 0..(MaxParams + 1),
        params \in SeqsUpTo({8, 13, 65}, MaxParams + 1)}

\* Other shapes: local and generic-instantiation signatures, a property,
\* class and value-type tokens (valid, dangling, of an unknown tag), a
\* generic variable with a two-byte index, arrays, a generic instance, and
\* signatures that end early or open with an unknown byte
OtherSigs ==
    {<<7, 2, 8, 14>>, <<7, 0>>, <<10, 1, 8>>, <<8, 0, 8>>, <<40, 1, 8, 8>>,
     <<6, 18, 5>>, <<6, 17, 4>>, <<6, 18, 13>>, <<6, 18, 3>>, <<6, 18, 0>>,
     <<6, 31, 4>>, <<6, 32, 5>>,
     <<6, 19, 129, 0>>, <<6, 30, 2>>, <<6, 20, 8, 2, 1, 3, 0>>,
     <<6, 20, 8, 65>>, <<6, 20, 8, 1, 2>>, <<6, 21, 18, 5, 2, 8, 14>>,
     <<6, 0>>, <<6, 26>>, <<6, 33>>, <<6, 22>>,
     <<6>>, <<>>, <<12>>, <<6, 34>>, <<6, 15>>, <<7, 192, 0, 16, 1>>,
     \* a custom modifier followed by the type it modifies
     <<31, 4, 8>>, <<32, 5, 8>>, <<6, 31, 4, 8>>, <<6, 32, 5, 8>>,
     <<31, 4, 15, 8>>, <<15, 31, 4, 8>>,
     \* counts at and past the ceiling of 0x1000
     <<7, 144, 0, 8>>, <<7, 144, 1, 8>>, <<10, 144, 0, 8>>, <<10, 144, 1, 8>>,
     <<10, 192, 0, 16, 1>>, <<7, 191, 255, 8, 8>>, <<10, 223, 255, 255, 255, 8>>,
     \* generic instances whose argument count is past the bytes of the blob
     <<21, 18, 5, 160, 1, 8>>, <<6, 21, 18, 5, 223, 255, 255, 255, 8>>,
     <<21, 18, 5, 3, 8, 8>>}

\* The element types that stand for a type by themselves
PrimitiveTags == {1, 2, 3, 4, 5, 6, 7, 8, 9, 10, 11, 12, 13, 14, 22, 24, 25, 28}

\* Field signatures of one primitive element type
PrimitiveSigs == {<<6, b>> : b \in PrimitiveTags}

SigHeaps ==
    {HeapOf(<<6>> \o ty) : ty \in TypeSigs}
    \cup {HeapOf(sig) : sig \in PrimitiveSigs}
    \cup {HeapOf(ty) : ty \in TypeSigs}
    \cup {HeapOf(sig) : sig \in MethodSigs \cup OtherSigs}
    \cup {<<0, 5, 6, 8>>, <<0>>}       \* a length past the end; no length

SigStart ==
    /\ blob_heap \in SigHeaps
    /\ blob_offset = 1
    /\ sig_kind = ""
    /\ sig_reader = <<>>
    /\ sig_stack = <<>>
    /\ sig_pc = [op |-> "idle"]
    /\ sig_result = Unread
    /\ table_rows = [t \in Tables |->
                        IF t \in {"type_def", "type_ref"} THEN MaxRows ELSE 0]
    /\ flags = {}
    /\ version = <<0, 0>>
    /\ coded_token_sizes = Unread

\* ValueReadable<BlobStreamOffset>::read and
\* ValueReadable<BlobStreamOffsetTypeSpec>::read: get_signature_reader(..)?,
\* then reader.read() of the type T the column holds
EntryReader_read(T) ==
    /\ sig_pc.op = "idle"
    /\ sig_kind' = T
    /\ LET reader == get_signature_reader(blob_heap, blob_offset)
       IN  IF ~IsOk(reader)
           THEN /\ sig_result' = reader
                /\ sig_pc' = [op |-> "done"]
                /\ sig_reader' = sig_reader
           ELSE /\ sig_result' = sig_result
                /\ sig_pc' = [op |-> "call", read |-> T]
                /\ sig_reader' = reader.val
    /\ UNCHANGED <<blob_heap, blob_offset, sig_stack, rangeVars, headerVars,
                   layoutVars, tokenVars,
                   buildVars,
                   heapVars,
                   peVars,
                   typeVars,
                   resolverVars>>

read_BlobStreamOffset == EntryReader_read("SignatureDef")

read_BlobStreamOffsetTypeSpec == EntryReader_read("TypeSigDef")

\* What a read's outcome does to the reader and to the stack of waiting
\* reads, stack being the reads that wait below the one that ran
Proceed(outcome, stack) ==
    IF outcome.out = "Fail"
    THEN /\ sig_result' = outcome.err
         /\ sig_pc' = [op |-> "done"]
         /\ sig_stack' = <<>>
         /\ sig_reader' = sig_reader
    ELSE IF outcome.out = "Call"
    THEN /\ sig_result' = sig_result
         /\ sig_pc' = [op |-> "call", read |-> outcome.read]
         /\ sig_stack' = Append(stack, outcome.frame)
         /\ sig_reader' = outcome.rd
    ELSE /\ sig_stack' = stack
         /\ sig_reader' = outcome.rd
         /\ IF stack = <<>>
            THEN /\ sig_result' = Ok(outcome.val)
                 /\ sig_pc' = [op |-> "done"]
            ELSE /\ sig_result' = sig_result
                 /\ sig_pc' = [op |-> "ret", val |-> outcome.val]

\* self.read::<TypeSigDef>() is entered
SignatureReader_read_TypeSigDef ==
    /\ sig_pc.op = "call"
    /\ sig_pc.read = "TypeSigDef"
    /\ Proceed(read_TypeSigDef(sig_reader), sig_stack)
    /\ UNCHANGED <<blob_heap, blob_offset, sig_kind, rangeVars, headerVars,
                   layoutVars, tokenVars,
                   buildVars,
                   heapVars,
                   peVars,
                   typeVars,
                   resolverVars>>

\* self.read::<SignatureDef>() is entered
SignatureReader_read_SignatureDef ==
    /\ sig_pc.op = "call"
    /\ sig_pc.read = "SignatureDef"
    /\ Proceed(read_SignatureDef(sig_reader), sig_stack)
    /\ UNCHANGED <<blob_heap, blob_offset, sig_kind, rangeVars, headerVars,
                   layoutVars, tokenVars,
                   buildVars,
                   heapVars,
                   peVars,
                   typeVars,
                   resolverVars>>

\* A nested read returned Ok: the read on top of the stack goes on
SignatureReader_read_returns ==
    /\ sig_pc.op = "ret"
    /\ LET frame == sig_stack[Len(sig_stack)]
           stack == SubSeq(sig_stack, 1, Len(sig_stack) - 1)
       IN  IF frame.at \in TypeSigDefFrames
           THEN Proceed(resume_TypeSigDef(frame, sig_pc.val, sig_reader), stack)
           ELSE Proceed(resume_SignatureDef(frame, sig_pc.val, sig_reader), stack)
    /\ UNCHANGED <<blob_heap, blob_offset, sig_kind, rangeVars, headerVars,
                   layoutVars, tokenVars,
                   buildVars,
                   heapVars,
                   peVars,
                   typeVars,
                   resolverVars>>

SigInit == SigStart /\ RangeIdle /\ LayoutIdle /\ TokenIdle /\ BuildIdle
        /\ HeapIdle
        /\ PeIdle
        /\ TypeIdle
        /\ ResolverIdle

SigNext ==
    \/ read_BlobStreamOffset
    \/ read_BlobStreamOffsetTypeSpec
    \/ SignatureReader_read_TypeSigDef
    \/ SignatureReader_read_SignatureDef
    \/ SignatureReader_read_returns

SpecSig == SigInit /\ [][SigNext]_vars

\* The nesting constructs the decoder has open: the TypeSigDef reads that
\* wait for the type or signature nested in them
NestingDepth ==
    Cardinality({i \in DOMAIN sig_stack : sig_stack[i].at \in TypeSigDefFrames})

\* C9: the recursion guard bounds the nesting of a signature, whatever the
\* nesting construct (PTR, BYREF, SZARRAY, PINNED, ARRAY, GENERICINST, FNPTR,
\* ...): the read that enters a level past RECURSTION_LIMIT (100) fails with
\* the recursion-limit error, so the decoder never has more than
\* RECURSTION_LIMIT + 1 nesting constructs open.
NestingIsGuarded == NestingDepth <= RECURSTION_LIMIT + 1

\* The bytes of a method signature's parameter list, when the blob is a
\* method signature that returns VOID: what follows the convention byte,
\* the generic-parameter count if flagged, the parameter count and VOID
\* (ParamHead bytes)
ParamHead ==
    IF "Generic" \in SignatureFlags(sig_reader.bytes[1]) THEN 4 ELSE 3

ParamBytes ==
    SubSeq(sig_reader.bytes, ParamHead + 1, Len(sig_reader.bytes))

\* The parameter count the blob declares
ParamCount == sig_reader.bytes[ParamHead - 1]

\* The blob is a Default or VarArg method signature that returns VOID and
\* whose parameter list holds ParamCount one-byte types and at most one
\* SENTINEL, which is not last
IsMethodBlob ==
    /\ sig_kind = "SignatureDef"
    /\ sig_reader # <<>>
    /\ Len(sig_reader.bytes) >= 3
    /\ sig_reader.bytes[1] % 16 \in {0, 5}
    /\ Len(sig_reader.bytes) >= ParamHead
    /\ sig_reader.bytes[ParamHead] = 1
    /\ LET ps == ParamBytes
           marks == {i \in DOMAIN ps : ps[i] = 65}
       IN  /\ \A i \in DOMAIN ps : ps[i] \in {8, 13, 65}
           /\ Cardinality(marks) <= 1
           /\ Len(ps) \notin marks
           /\ ParamCount = Len(ps) - Cardinality(marks)

\* The TypeSigDef of every byte of s, in order
TypesOf(s) ==
    [i \in 1..Len(s) |-> [variant |-> PlainType[ElementType_from_u8(s[i]).v]]]

\* C10: in a method signature the parameter types read before a SENTINEL
\* marker form the parameter list and the ones read after it form the
\* after-sentinel list, each in blob order (and without a marker every
\* parameter is in the parameter list and there is no after-sentinel list).
SentinelSplitsParameters ==
    (IsMethodBlob /\ IsOk(sig_result)) =>
        LET m == sig_result.val.calling_convention.sig
            ps == ParamBytes
            marks == {i \in DOMAIN ps : ps[i] = 65}
        IN  IF marks = {}
            THEN /\ m.parameters = TypesOf(ps)
                 /\ m.params_after_sentinel = None
            ELSE LET at == CHOOSE i \in marks : TRUE
                 IN  /\ m.parameters = TypesOf(SubSeq(ps, 1, at - 1))
                     /\ m.params_after_sentinel =
                            Some(TypesOf(SubSeq(ps, at + 1, Len(ps))))

\* The bytes a wrapping tag and what belongs to it take before the nested
\* type: the tag, and for a custom modifier its one-byte coded token
WrapperHead ==
    [Ptr |-> 1, ByRef |-> 1, SZArray |-> 1, Pinned |-> 1, CModReq |-> 2,
     CModOpt |-> 2]

\* C11: each of the tags PTR, BYREF, SZARRAY, PINNED and CMOD_REQD/CMOD_OPT
\* wraps one nested type: a type value decoded from a blob that opens with
\* such a tag holds the nested type read after the tag (and after the
\* modifier's token), and the bytes of that nested type were consumed as
\* part of the same value.
WrapsOneNestedType ==
    (sig_kind = "TypeSigDef" /\ IsOk(sig_result)
        /\ sig_result.val.variant \in DOMAIN WrapperHead)
    => /\ "boxed" \in DOMAIN sig_result.val
       /\ sig_reader.pos > WrapperHead[sig_result.val.variant]

-----------------------------------------------------------------------------
(* blob_stream/reader.rs: read_compressed_u32 on its own, for every first   *)
(* byte                                                                     *)

\* The bytes that follow the first byte
TailBytes == {0, 1, 255}

\* Every first byte, followed by up to 3 more bytes; and the empty stream
CompressedStreams ==
    {<<>>} \cup {<<b>> \o tail : b \in 0..255, tail \in SeqsUpTo(TailBytes, 3)}

CompressedStart ==
    /\ blob_heap \in CompressedStreams
    /\ blob_offset = 0
    /\ sig_kind = ""
    /\ sig_reader = <<>>
    /\ sig_stack = <<>>
    /\ sig_pc = [op |-> "idle"]
    /\ sig_result = Unread

\* BlobStream::read_compressed_u32 at the start of the stream
BlobStream_read_compressed_u32 ==
    /\ sig_pc.op = "idle"
    /\ sig_kind' = "u32"
    /\ sig_reader' = SignatureReader(blob_heap, 0)
    /\ sig_result' = read_compressed_u32(SignatureReader(blob_heap, 0))
    /\ sig_pc' = [op |-> "done"]
    /\ UNCHANGED <<blob_heap, blob_offset, sig_stack, rangeVars, headerVars,
                   layoutVars, tokenVars,
                   buildVars,
                   heapVars,
                   peVars,
                   typeVars,
                   resolverVars>>

CompressedInit ==
    CompressedStart /\ HeaderIdle /\ RangeIdle /\ LayoutIdle /\ TokenIdle
        /\ BuildIdle
        /\ HeapIdle
        /\ PeIdle
        /\ TypeIdle
        /\ ResolverIdle

CompressedNext == BlobStream_read_compressed_u32

SpecCompressed == CompressedInit /\ [][CompressedNext]_vars

\* The number of bytes the top bits of a first byte select: one byte when
\* the top bit is 0, two when the top bits are 10, four when they are 11
SelectedWidth(first) ==
    IF first < 128 THEN 1 ELSE IF first < 192 THEN 2 ELSE 4

\* The first byte with its selector bits cleared
SelectorMasked(first) ==
    IF first < 128 THEN first ELSE IF first < 192 THEN first - 128
    ELSE first - 192

\* The big-endian number of a first byte and the bytes after it
BigEndian(first, rest) ==
    IF Len(rest) = 0 THEN first
    ELSE IF Len(rest) = 1 THEN first * 256 + rest[1]
    ELSE ((first * 256 + rest[1]) * 256 + rest[2]) * 256 + rest[3]

IsCountedBlob ==
    /\ sig_kind = "SignatureDef"
    /\ sig_reader # <<>>
    /\ Len(sig_reader.bytes) >= 2
    /\ sig_reader.bytes[1] % 16 \in {7, 10}
    /\ Len(sig_reader.bytes) >= 1 + SelectedWidth(sig_reader.bytes[2])

\* The count such a blob declares
DeclaredCount ==
    LET bytes == sig_reader.bytes
    IN  BigEndian(SelectorMasked(bytes[2]),
                  SubSeq(bytes, 3, 1 + SelectedWidth(bytes[2])))

\* C13: a local-variable or generic-instantiation-of-method signature
\* whose count exceeds 0x1000 is rejected with an error before any element
\* is read and before the vector sized by the count exists: the decoder
\* never starts a read of an element type and never holds the list of
\* elements, and the read ends in the BadImageFormat error.
CeilingRejectsBeforeReading ==
    (IsCountedBlob /\ DeclaredCount > 4096) =>
        /\ sig_stack = <<>>
        /\ sig_pc.op \in {"call", "done"}
        /\ sig_pc.op = "call" => sig_pc.read = "SignatureDef"
        /\ sig_pc.op = "done" =>
              /\ IsErr(sig_result)
              /\ sig_result.val[1] = "BadImageFormat"

\* A local-variable signature of 0x1001 elements was rejected
CeilingRejected ==
    /\ sig_kind = "SignatureDef"
    /\ blob_heap = HeapOf(<<7, 192, 0, 16, 1>>)
    /\ sig_pc.op = "done"
    /\ IsErr(sig_result)
    /\ sig_result.val[1] = "BadImageFormat"

-----------------------------------------------------------------------------
(* metadata.rs, md/metadata_header.rs, md/streams/mod.rs: Metadata::parse  *)
(* from the stream headers on (the PE image and the CLR header are read)   *)


\* The closure MetadataHeader::metadata_type folds over self.streams
metadata_type_step(v, name) ==
    IF ~v.some /\ name = "#~" THEN Some("Compressed")
    ELSE IF ~v.some /\ name = "#-" THEN Some("Enc")
    ELSE IF name = "Schema" THEN Some("Compressed")
    ELSE v

RECURSIVE metadata_type_fold(_, _)
metadata_type_fold(v, names) ==
    IF names = <<>> THEN v
    ELSE metadata_type_fold(metadata_type_step(v, Head(names)), Tail(names))

\* MetadataHeader::metadata_type
metadata_type(names) ==
    LET v == metadata_type_fold(None, names)
    IN  IF v.some THEN Ok(v.v)
        ELSE Err("BadImageFormat", "No #~ or #- stream found")

\* MetadataStreams::from_headers: every stream the build reads must be there
Has(names, name) == \E i \in DOMAIN names : names[i] = name
from_headers(names) ==
    IF ~Has(names, "#~")
    THEN Err("BadImageFormat", "No .net tables stream (#~)")
    ELSE IF ~Has(names, "#Strings")
    THEN Err("BadImageFormat", "No strings stream (#Strings)")
    ELSE IF ~Has(names, "#GUID")
    THEN Err("BadImageFormat", "No guid stream (#GUID)")
    ELSE IF ~Has(names, "#Blob")
    THEN Err("BadImageFormat", "No blob stream (#Blob)")
    ELSE Ok("MetadataStreams")

\* Metadata::parse: metadata_type()?, the match on it, from_headers(..)?
parse(names) ==
    LET ty == metadata_type(names)
    IN  IF IsErr(ty) THEN ty
        ELSE IF ty.val = "Enc"
        THEN Panic("Only compressed streams are currently supported")
        ELSE from_headers(names)

-----------------------------------------------------------------------------
(* md/streams/values_streams.rs, io/entry_reader.rs: the heaps of the      *)
(* build and the reads of the columns that index them                      *)

\* #Strings: "", "A", and a "B" that no zero byte ends.  Every byte is
\* ASCII, so std::str::from_utf8 succeeds on every slice.
StringsHeap == <<0, 65, 0, 66>>

\* StringsStream::read_string
read_string(offset) ==
    IF offset > Len(StringsHeap)
    THEN Err("InvalidStreamIndex", <<"#Strings", offset>>)
    ELSE LET ends == {i \in (offset + 1)..Len(StringsHeap) : StringsHeap[i] = 0}
         IN  IF ends = {}
             THEN Err("InvalidStreamIndex", <<"#Strings", offset>>)
             ELSE Ok(SubSeq(StringsHeap, offset + 1,
                            (CHOOSE i \in ends : \A j \in ends : i <= j) - 1))

GUID_SIZE == 16

\* #GUID: one GUID
GuidHeap == [i \in 1..GUID_SIZE |-> i]

\* GuidStream::read_guid: &self.heap_data[position..] panics when position
\* is past the end, and Uuid::from_slice takes a slice of exactly 16 bytes
read_guid(offset) ==
    IF offset = 0 THEN Ok(<<>>)
    ELSE LET position == (offset - 1) * GUID_SIZE
         IN  IF position > Len(GuidHeap)
             THEN Panic("range start index out of range for slice")
             ELSE IF Len(GuidHeap) - position = GUID_SIZE
             THEN Ok(SubSeq(GuidHeap, position + 1, Len(GuidHeap)))
             ELSE Err("InvalidStreamIndex", <<"#GUID", position>>)

\* #Blob, by blob index: what get_signature_reader(..)?.read() returns for
\* the blob there.  1 holds a field signature, 2 a method signature, 3 a
\* type; the blob at 4 is cut short.  (The signature part decodes blobs
\* byte by byte; the build only looks at the calling convention.)
BlobSignatureDef ==
    <<Ok([calling_convention |-> [variant |-> "Field"]]),
      Ok([calling_convention |-> [variant |-> "Method"]]),
      Err("InvalidSignatureCallingConvention", <<"#Blob", 3>>),
      Err("NotEnoughDataLeft", <<"#Blob", 4>>)>>
BlobTypeSigDef ==
    <<Err("InvalidElementType", <<"#Blob", 1>>),
      Err("InvalidElementType", <<"#Blob", 2>>),
      Ok([variant |-> "I4"]),
      Err("NotEnoughDataLeft", <<"#Blob", 4>>)>>

\* ValueReadable<BlobStreamOffset>::read, ValueReadable<BlobStreamOffsetTypeSpec>::read
read_signature(offset) ==
    IF offset \in DOMAIN BlobSignatureDef THEN BlobSignatureDef[offset]
    ELSE Err("InvalidStreamIndex", <<"#Blob", offset>>)
read_type_spec(offset) ==
    IF offset \in DOMAIN BlobTypeSigDef THEN BlobTypeSigDef[offset]
    ELSE Err("InvalidStreamIndex", <<"#Blob", offset>>)

\* FieldSignature::from_sig_def, MethodSignature::from_sig_def: the match on
\* sig.calling_convention
from_sig_def(for, sig) ==
    IF ~IsOk(sig) THEN sig
    ELSE IF sig.val.calling_convention.variant = for THEN Ok(sig.val)
    ELSE Err("InvalidSignatureForEntry", <<for, 0>>)

\* ResolutionScope::from_ent_ptr_must, TypeDefOrRef::from_ent_ptr_must
from_ent_ptr_must(ptr) ==
    IF ~IsOk(ptr) THEN ptr
    ELSE IF ptr.val = PtrNone THEN Err("InvalidSignatureForEntry", <<"None", 0>>)
    ELSE ptr

-----------------------------------------------------------------------------
(* md/streams/tables_stream/tables.rs, entries/values.rs: the raw row of   *)
(* every list of the build and the entry ReadEntry::from_row makes of it   *)

\* MaybeUninitEntries::init_rows: the lists in the order it fills them
EntOrder_type_defs_skipped ==
    <<"modules", "type_refs", "fields", "methods", "params",
      "interface_impls", "module_ref", "type_specs", "assembly_ref">>
EntOrder ==
    <<"modules", "type_refs", "type_defs", "fields", "methods", "params",
      "interface_impls", "module_ref", "type_specs", "assembly_ref">>

\* The coded-token column of a raw row, and the kind of its token
CodedColumn ==
    [type_refs |-> "resolution_scope", type_defs |-> "extends",
     interface_impls |-> "interface"]
CodedKind ==
    [type_refs |-> "ResolutionScope", type_defs |-> "TypeDefOrRef",
     interface_impls |-> "TypeDefOrRef"]

\* ReadData<row type>::read for TablesStreamReader: the columns in turn.
\* The Module decoder first checks the row count of its table; a coded
\* token is decoded while the row is read.
ReadData_read(list, raw) ==
    IF list = "modules" /\ table_rows["module"] # 1
    THEN Err("BadImageFormat", "Module table should have exactly one entry")
    ELSE IF list \in DOMAIN CodedColumn
    THEN LET t == decode(CodedKind[list], raw[CodedColumn[list]])
         IN  IF IsErr(t) THEN t
             ELSE Ok([raw EXCEPT ![CodedColumn[list]] = t.val])
    ELSE Ok(raw)

\* RowRange::new(row.<list column>, next.map(|x| x.<list column>))
RowRange_end(next, column) ==
    IF next.some THEN Some(next.v[column]) ELSE None

\* What every self.read(..) of from_row returns, by the column it reads
Columns(list, row, next) ==
    CASE list = "modules" ->
            [generation |-> Ok(row.generation),
             name |-> read_string(row.name),
             mvid |-> read_guid(row.mvid),
             enc_id |-> read_guid(row.enc_id),
             enc_base_id |-> read_guid(row.enc_base_id)]
      [] list = "type_refs" ->
            [resolution_scope |->
                from_ent_ptr_must(
                    get_entry_field("ResolutionScope", row.resolution_scope).result),
             name |-> read_string(row.name),
             namespace |-> read_string(row.namespace)]
      [] list = "type_defs" ->
            [name |-> read_string(row.name),
             namespace |-> read_string(row.namespace),
             extends |-> get_entry_field("TypeDefOrRef", row.extends).result,
             field_list |->
                read_RowRange(row.field_list, RowRange_end(next, "field_list"),
                              ent_len("fields")),
             method_list |->
                read_RowRange(row.method_list, RowRange_end(next, "method_list"),
                              ent_len("methods"))]
      [] list = "fields" ->
            [signature |-> read_signature(row.signature),
             name |-> read_string(row.name),
             from_sig_def |-> from_sig_def("Field", read_signature(row.signature))]
      [] list = "methods" ->
            [name |-> read_string(row.name),
             signature |-> from_sig_def("Method", read_signature(row.signature)),
             param_list |->
                read_RowRange(row.param_list, RowRange_end(next, "param_list"),
                              ent_len("params"))]
      [] list = "params" ->
            [name |-> read_string(row.name)]
      [] list = "interface_impls" ->
            [class |-> read_index(row.class, "type_defs").result,
             interface |->
                from_ent_ptr_must(
                    get_entry_field("TypeDefOrRef", row.interface).result)]
      [] list = "module_ref" ->
            [name |-> read_string(row.name)]
      [] list = "type_specs" ->
            [signature |-> read_type_spec(row.signature)]
      [] list = "assembly_ref" ->
            [name |-> read_string(row.name),
             locale |-> read_string(row.locale)]

\* The order in which from_row evaluates its reads
ReadOrder ==
    [modules |-> <<"generation", "name", "mvid", "enc_id", "enc_base_id">>,
     type_refs |-> <<"resolution_scope", "name", "namespace">>,
     type_defs |-> <<"name", "namespace", "extends", "field_list", "method_list">>,
     fields |-> <<"signature", "name", "from_sig_def">>,
     methods |-> <<"name", "signature", "param_list">>,
     params |-> <<"name">>,
     interface_impls |-> <<"class", "interface">>,
     module_ref |-> <<"name">>,
     type_specs |-> <<"signature">>,
     assembly_ref |-> <<"name", "locale">>]
ColumnOrder ==
    [modules |-> <<"generation", "name", "mvid", "enc_id", "enc_base_id">>,
     type_refs |-> <<"resolution_scope", "name", "namespace">>,
     type_defs |-> <<"name", "namespace", "extends", "field_list", "method_list">>,
     fields |-> <<"name", "signature", "from_sig_def">>,
     methods |-> <<"name", "signature", "param_list">>,
     params |-> <<"name">>,
     interface_impls |-> <<"class", "interface">>,
     module_ref |-> <<"name">>,
     type_specs |-> <<"signature">>,
     assembly_ref |-> <<"name", "locale">>]

\* A chain of `?`: the first result that is not Ok returns (or unwinds)
FirstNotOk(results) ==
    CHOOSE i \in DOMAIN results :
        /\ ~IsOk(results[i])
        /\ \A j \in 1..(i - 1) : IsOk(results[j])
Question(results, value) ==
    IF \E i \in DOMAIN results : ~IsOk(results[i])
    THEN results[FirstNotOk(results)]
    ELSE Ok(value)

\* The entry from_row returns when every read is Ok
Entry(list, cols) ==
    IF list = "type_defs"
    THEN [name |-> cols.name.val, namespace |-> cols.namespace.val,
          extends |-> cols.extends.val, field_list |-> cols.field_list.val,
          method_list |-> cols.method_list.val, interface_impl |-> <<>>]
    ELSE [c \in DOMAIN cols |-> cols[c].val]

\* ReadEntry<V>::from_row of the entry type V of a list
ReadEntry_from_row_in(order, list, row, next) ==
    LET cols == Columns(list, row, next)
    IN  Question([i \in DOMAIN order[list] |-> cols[order[list][i]]],
                 Entry(list, cols))
ReadEntry_from_row(list, row, next) ==
    ReadEntry_from_row_in(ReadOrder, list, row, next)

-----------------------------------------------------------------------------
(* entries/containers.rs, entries/mod.rs, module/loaded.rs: the cells, the *)
(* two phases of the build and the pass over the interface rows            *)

\* MaybeUnsetEntry::new_unset.  writes counts the set_value calls on a cell.
new_unset == [is_set |-> FALSE, row |-> 0, value |-> <<>>, writes |-> 0]

\* MaybeUnsetEntry::set_value: RowEntry::new(value, index) replaces what the
\* cell held
set_value_is_set_kept(cell, index, value) ==
    [is_set |-> cell.is_set, row |-> index, value |-> value,
     writes |-> cell.writes + 1]
set_value(cell, index, value) ==
    [is_set |-> TRUE, row |-> index, value |-> value, writes |-> cell.writes + 1]

\* self.header.table_locations.<table of the list>.rows
Rows(list) == table_rows[EntList[list]]

\* MaybeUninitEntries::from_rows, its init_ent_list and init_metadata_list:
\* Vec::with_capacity(rows), then one push per unit of capacity
from_rows_one_short(rows) == [i \in 1..(rows - 1) |-> new_unset]
from_rows_init_ent_list(rows) == [i \in 1..rows |-> new_unset]

from_rows == [list \in DOMAIN EntList |-> from_rows_init_ent_list(Rows(list))]

\* &uninit_rows[index] of init_rows' init_ent_list
first_cell(index) == 0
write_index(index) == index

\* Vec::push of the pass over the interface rows
push_front(list, x) == <<x>> \o list
push(list, x) == Append(list, x)

\* for if_impl in entries.interface_impls { .. } of Module::from_metadata,
\* on the cells of type_defs: assume_init_value and value_mut assert is_set
RECURSIVE push_interface_impls(_, _)
push_interface_impls(type_defs, impls) ==
    IF impls = <<>> THEN Ok(type_defs)
    ELSE LET if_impl == Head(impls)
             class == if_impl.value.class
         IN  IF ~if_impl.is_set
             THEN Panic("assertion failed: self.is_set()")
             ELSE IF ~type_defs[class.index + 1].is_set
             THEN Panic("assertion failed: self.is_set()")
             ELSE push_interface_impls(
                     [type_defs EXCEPT ![class.index + 1].value.interface_impl =
                                            push(@, if_impl.value.interface)],
                     Tail(impls))

\* Ok(Self { modules: entries.modules, .. }): every list but interface_impls
Module(lists, type_defs) ==
    [modules |-> lists.modules, type_refs |-> lists.type_refs,
     type_defs |-> type_defs, fields |-> lists.fields,
     methods |-> lists.methods, params |-> lists.params,
     module_ref |-> lists.module_ref, type_specs |-> lists.type_specs,
     assembly_ref |-> lists.assembly_ref, view |-> Unread]

-----------------------------------------------------------------------------
(* The metadata the build is given *)

MaxImpls == 2       \* rows of the InterfaceImpl table

CompressedStreamNames == <<"#~", "#Strings", "#US", "#GUID", "#Blob">>

StreamNames ==
    {CompressedStreamNames,
     <<"#-", "#Strings", "#US", "#GUID", "#Blob">>,
     <<"#-", "Schema", "#Strings", "#GUID", "#Blob">>,
     <<"#~", "#-", "#Strings", "#GUID", "#Blob">>,
     <<"#Strings", "#US", "#GUID", "#Blob">>,
     <<"#~", "#Strings", "#Blob">>}

ModuleRow(name, mvid) ==
    [generation |-> 0, name |-> name, mvid |-> mvid, enc_id |-> 0,
     enc_base_id |-> 0]
TypeRefRow(scope, name) ==
    [resolution_scope |-> U32(0, scope), name |-> name, namespace |-> 0]
TypeDefRow(name, extends, field_list, method_list) ==
    [name |-> name, namespace |-> 0, extends |-> U32(0, extends),
     field_list |-> field_list, method_list |-> method_list]
FieldRow(name, signature) == [name |-> name, signature |-> signature]
MethodRow(name, signature, param_list) ==
    [name |-> name, signature |-> signature, param_list |-> param_list]
NameRow(name) == [name |-> name]
InterfaceImplRow(class, interface) ==
    [class |-> class, interface |-> U32(0, interface)]
TypeSpecRow(signature) == [signature |-> signature]
AssemblyRefRow(name, locale) == [name |-> name, locale |-> locale]

\* Names 1 is "A"; 3 has no end and 5 is past the heap.  GUID 1 is the GUID
\* of the heap, 2 is at its end, 3 past it.  A coded value is rid * 4 + tag.
ModuleRows ==
    {<<>>, <<ModuleRow(1, 1)>>, <<ModuleRow(5, 1)>>, <<ModuleRow(1, 2)>>,
     <<ModuleRow(1, 3)>>, <<ModuleRow(1, 1), ModuleRow(1, 1)>>}
TypeRefRows == {<<>>, <<TypeRefRow(4, 1)>>, <<TypeRefRow(0, 5)>>}
TwoTypeDefs == <<TypeDefRow(1, 0, 1, 1), TypeDefRow(1, 5, 2, 1)>>
TypeDefRows ==
    {<<>>, TwoTypeDefs, <<TypeDefRow(3, 3, 1, 1)>>,
     <<TypeDefRow(1, 0, 0, 1), TypeDefRow(5, 0, 1, 1)>>}
TwoFields == <<FieldRow(1, 1), FieldRow(1, 1)>>
FieldRows ==
    {<<>>, TwoFields, <<FieldRow(5, 4)>>, <<FieldRow(1, 1), FieldRow(3, 1)>>,
     <<FieldRow(1, 2)>>}
MethodRows == {<<>>, <<MethodRow(1, 2, 1)>>}
ParamRows == {<<NameRow(1)>>}
ModuleRefRows == {<<>>, <<NameRow(1)>>}
TypeSpecRows == {<<>>, <<TypeSpecRow(3), TypeSpecRow(4)>>}
AssemblyRefRows ==
    {<<>>, <<AssemblyRefRow(1, 0)>>,
     <<AssemblyRefRow(1, 0), AssemblyRefRow(1, 5)>>}
InterfaceImplRows ==
    SeqsUpTo({InterfaceImplRow(class, interface) :
                 class \in 0..3, interface \in {4, 8, 5, 3}}, MaxImpls)

Image(names, assembly, modules, type_refs, type_defs, fields, methods, params,
      interface_impls, module_ref, type_specs, assembly_ref) ==
    [stream_names |-> names, assembly |-> assembly,
     rows |-> [modules |-> modules, type_refs |-> type_refs,
               type_defs |-> type_defs, fields |-> fields,
               methods |-> methods, params |-> params,
               interface_impls |-> interface_impls,
               module_ref |-> module_ref, type_specs |-> type_specs,
               assembly_ref |-> assembly_ref]]

\* Every table varied with no interface rows; the interface rows varied
\* over two types; the stream names and the Assembly row count varied
Images ==
    {Image(CompressedStreamNames, 1, m, tr, td, f, me, p, <<>>, mr, ts, ar) :
        m \in ModuleRows, tr \in TypeRefRows, td \in TypeDefRows,
        f \in FieldRows, me \in MethodRows, p \in ParamRows,
        mr \in ModuleRefRows, ts \in TypeSpecRows, ar \in AssemblyRefRows}
    \cup {Image(CompressedStreamNames, 1, <<ModuleRow(1, 1)>>,
                <<TypeRefRow(4, 1)>>, TwoTypeDefs, TwoFields, <<>>, <<>>, ii,
                <<>>, <<>>, <<>>) : ii \in InterfaceImplRows}
    \cup {Image(names, assembly, <<ModuleRow(1, 1)>>, <<TypeRefRow(4, 1)>>,
                TwoTypeDefs, TwoFields, <<>>, <<>>, <<>>, <<>>, <<>>, <<>>) :
            names \in StreamNames, assembly \in 0..2}

BuildStart ==
    /\ \E image \in Images :
          /\ stream_names = image.stream_names
          /\ raw_rows = image.rows
          /\ table_rows =
                [t \in Tables |->
                    IF t = "assembly" THEN image.assembly
                    ELSE IF \E list \in DOMAIN EntList : EntList[list] = t
                    THEN Len(image.rows[CHOOSE list \in DOMAIN EntList :
                                            EntList[list] = t])
                    ELSE 0]
    /\ flags = {}
    /\ version = <<0, 0>>
    /\ coded_token_sizes = Unread
    /\ metadata = Unread
    /\ entries = <<>>
    /\ row_iter = [list_no |-> 0, index |-> 0, count |-> 0, peeked |-> None]
    /\ loaded = Unread

-----------------------------------------------------------------------------
(* The steps of Metadata::parse, Module::from_metadata and Module::module *)

\* Metadata::parse
Metadata_parse ==
    /\ IsUnread(metadata)
    /\ metadata' = parse(stream_names)
    /\ UNCHANGED <<stream_names, raw_rows, entries, row_iter, loaded,
                   rangeVars, headerVars, layoutVars, tokenVars, sigVars,
                   heapVars,
                   peVars,
                   typeVars,
                   resolverVars>>

\* Module::from_metadata, phase 1: MaybeUninitEntries::from_rows(locations);
\* init_rows then turns to its first list
MaybeUninitEntries_from_rows ==
    /\ IsOk(metadata)
    /\ entries = <<>>
    /\ entries' = from_rows
    /\ row_iter' = [row_iter EXCEPT !.list_no = 1]
    /\ UNCHANGED <<stream_names, raw_rows, metadata, loaded,
                   rangeVars, headerVars, layoutVars, tokenVars, sigVars,
                   heapVars,
                   peVars,
                   typeVars,
                   resolverVars>>

\* The list init_rows is filling
InitList == EntOrder[row_iter.list_no]

\* TableRowsIterator::next at index: self.reader.read() of the next raw row
TableRowsIterator_item(list, index) ==
    ReadData_read(list, raw_rows[list][index + 1])

\* One turn of `while let Some((index, row)) = row_iter.next()` in
\* init_rows' init_ent_list: the row (peeked before, or read now), `row?`,
\* row_iter.peek(), from_row(..)?, write_value(entry, val, index)
init_ent_list_next ==
    /\ entries # <<>>
    /\ IsUnread(loaded)
    /\ row_iter.list_no \in DOMAIN EntOrder
    /\ row_iter.peeked.some \/ row_iter.index < Rows(InitList)
    /\ LET list == InitList
           row == IF row_iter.peeked.some THEN row_iter.peeked.v
                  ELSE TableRowsIterator_item(list, row_iter.index)
           at == IF row_iter.peeked.some THEN row_iter.index
                 ELSE row_iter.index + 1
           index == row_iter.count
       IN  IF ~IsOk(row)
           THEN /\ loaded' = row
                /\ row_iter' = [row_iter EXCEPT !.index = at, !.peeked = None,
                                                !.count = index + 1]
                /\ entries' = entries
           ELSE LET peeked == IF at < Rows(list)
                              THEN Some(TableRowsIterator_item(list, at))
                              ELSE None
                    next == IF peeked.some /\ IsOk(peeked.v)
                            THEN Some(peeked.v.val) ELSE None
                    val == ReadEntry_from_row(list, row.val, next)
                IN  /\ row_iter' = [row_iter EXCEPT
                                        !.index = IF peeked.some THEN at + 1 ELSE at,
                                        !.peeked = peeked,
                                        !.count = index + 1]
                    /\ IF ~IsOk(val)
                       THEN loaded' = val /\ entries' = entries
                       ELSE IF write_index(index) >= Len(entries[list])
                       THEN /\ loaded' = Panic("index out of bounds")
                            /\ entries' = entries
                       ELSE /\ loaded' = loaded
                            /\ entries' =
                                [entries EXCEPT ![list][write_index(index) + 1] =
                                    set_value(@, index + 1, val.val)]
    /\ UNCHANGED <<stream_names, raw_rows, metadata,
                   rangeVars, headerVars, layoutVars, tokenVars, sigVars,
                   heapVars,
                   peVars,
                   typeVars,
                   resolverVars>>

\* row_iter.next() is None: init_ent_list returns Ok(()), and init_rows
\* turns to its next list or returns
init_ent_list_return ==
    /\ entries # <<>>
    /\ IsUnread(loaded)
    /\ row_iter.list_no \in DOMAIN EntOrder
    /\ ~row_iter.peeked.some
    /\ row_iter.index >= Rows(InitList)
    /\ row_iter' = [list_no |-> row_iter.list_no + 1, index |-> 0,
                    count |-> 0, peeked |-> None]
    /\ UNCHANGED <<stream_names, raw_rows, metadata, entries, loaded,
                   rangeVars, headerVars, layoutVars, tokenVars, sigVars,
                   heapVars,
                   peVars,
                   typeVars,
                   resolverVars>>

\* Module::from_metadata after init_rows returned Ok: the pass over the
\* interface rows, then Ok(Self { .. })
Module_from_metadata_return ==
    /\ IsUnread(loaded)
    /\ row_iter.list_no = Len(EntOrder) + 1
    /\ LET type_defs == push_interface_impls(entries.type_defs,
                                             entries.interface_impls)
       IN  loaded' = IF IsPanic(type_defs) THEN type_defs
                     ELSE Ok(Module(entries, type_defs.val))
    /\ UNCHANGED <<stream_names, raw_rows, metadata, entries, row_iter,
                   rangeVars, headerVars, layoutVars, tokenVars, sigVars,
                   heapVars,
                   peVars,
                   typeVars,
                   resolverVars>>

\* Module::module: EntryView(&self.modules[0])
Module_module ==
    /\ IsOk(loaded)
    /\ IsUnread(loaded.val.view)
    /\ loaded' = [loaded EXCEPT !.val.view =
                    IF Len(loaded.val.modules) = 0
                    THEN Panic("index out of bounds")
                    ELSE Ok(Ptr("Some", "modules", 0))]
    /\ UNCHANGED <<stream_names, raw_rows, metadata, entries, row_iter,
                   rangeVars, headerVars, layoutVars, tokenVars, sigVars,
                   heapVars,
                   peVars,
                   typeVars,
                   resolverVars>>

BuildInit ==
    BuildStart /\ RangeIdle /\ LayoutIdle /\ TokenIdle /\ SigIdle
        /\ HeapIdle
        /\ PeIdle
        /\ TypeIdle
        /\ ResolverIdle

BuildNext ==
    \/ Metadata_parse
    \/ MaybeUninitEntries_from_rows
    \/ init_ent_list_next
    \/ init_ent_list_return
    \/ Module_from_metadata_return
    \/ Module_module

SpecBuild == BuildInit /\ [][BuildNext]_vars

-----------------------------------------------------------------------------
(* The build: allocation, the writes of the cells, failures, the interface *)
(* lists, the stream names and the row counts                              *)

\* No raw row has been handed out by a row iterator
NothingRead == row_iter.list_no <= 1 /\ row_iter.index = 0

Lists == DOMAIN EntList

\* C14: every list of the entries holds one cell per row of its table, all
\* of them unset, from before the first row of any table is read; no row
\* is read while the lists are not there.
AllocatedBeforeRead ==
    IF entries = <<>> THEN NothingRead
    ELSE /\ \A list \in Lists : Len(entries[list]) = Rows(list)
         /\ NothingRead =>
                \A list \in Lists : \A i \in DOMAIN entries[list] :
                    entries[list][i] = new_unset

\* C14 seen: the second row of a table is being filled into cells that
\* were there before
AllocatedThenRead ==
    /\ entries # <<>>
    /\ row_iter.list_no = 3
    /\ row_iter.index = 2
    /\ Len(entries.type_defs) = 2
    /\ entries.type_defs[1].is_set
    /\ ~entries.type_defs[2].is_set

\* C15: no cell is written twice: a cell that is set has seen one call of
\* set_value, a cell that is not set has seen none.
CellsSetOnce ==
    entries # <<>> =>
        \A list \in Lists : \A i \in DOMAIN entries[list] :
            /\ entries[list][i].writes <= 1
            /\ entries[list][i].is_set <=> entries[list][i].writes = 1

\* C15 seen: both rows of a table have been written, each into its own cell
TwoCellsSet ==
    /\ entries # <<>>
    /\ Len(entries.fields) = 2
    /\ entries.fields[1].writes = 1 /\ entries.fields[1].row = 1
    /\ entries.fields[2].writes = 1 /\ entries.fields[2].row = 2

\* Every cell of a module is there and set
Complete(m) ==
    \A list \in Lists \ {"interface_impls"} :
        /\ Len(m[list]) = Rows(list)
        /\ \A i \in DOMAIN m[list] : m[list][i].is_set

\* C16: Module::from_metadata ends in a typed error or in a module whose
\* every cell is set, whatever column of whatever row cannot be decoded.
BuildEndsInGraphOrError ==
    ~IsUnread(loaded) => \/ IsErr(loaded)
                         \/ IsOk(loaded) /\ Complete(loaded.val)

\* Row k of a list as its decoder reads it, and the row peeked after it
RawAt(list, k) == ReadData_read(list, raw_rows[list][k])
NextOf(list, k) ==
    IF k < Len(raw_rows[list]) /\ IsOk(RawAt(list, k + 1))
    THEN Some(RawAt(list, k + 1).val) ELSE None

\* What decoding row k of a list column by column, in the order of the
\* columns of its table, ends in: the failure of the first column that
\* fails.  A coded token that cannot be decoded is the failure of its column.
RowInColumnOrder(list, k) ==
    LET raw == raw_rows[list][k]
        coded == list \in DOMAIN CodedColumn
        t == decode(CodedKind[list], raw[CodedColumn[list]])
        row == IF ~coded THEN raw
               ELSE [raw EXCEPT ![CodedColumn[list]] =
                        IF IsOk(t) THEN t.val ELSE [rid |-> 0, target |-> "None"]]
        cols == Columns(list, row, NextOf(list, k))
        order == ColumnOrder[list]
    IN  IF list = "modules" /\ Rows(list) # 1 THEN RawAt(list, k)
        ELSE Question([i \in DOMAIN order |->
                          IF coded /\ order[i] = CodedColumn[list] /\ IsErr(t)
                          THEN t ELSE cols[order[i]]],
                      row)

\* The rows that cannot be decoded, as <<place of the list, row>>
FailingRows ==
    UNION {{<<n, k>> : k \in {j \in 1..Len(raw_rows[EntOrder[n]]) :
                                ~IsOk(RowInColumnOrder(EntOrder[n], j))}} :
           n \in DOMAIN EntOrder}
Before(p, q) == p[1] < q[1] \/ (p[1] = q[1] /\ p[2] < q[2])
FirstFailingRow ==
    CHOOSE p \in FailingRows : \A q \in FailingRows : q = p \/ Before(p, q)
FirstFailure == RowInColumnOrder(EntOrder[FirstFailingRow[1]], FirstFailingRow[2])

\* C17: the error Module::from_metadata returns is the failure of the first
\* column that fails, taking the tables in their order, the rows of a table
\* in theirs and the columns of a row in theirs.
FirstFailureReported ==
    (IsOk(metadata) /\ ~IsUnread(loaded)) =>
        /\ IsErr(loaded) => FailingRows # {}
        /\ (FailingRows # {} /\ IsErr(FirstFailure)) =>
                /\ IsErr(loaded)
                /\ loaded.val[1] = FirstFailure.val[1]
                /\ loaded.val[2] = FirstFailure.val[2]

\* The cell a coded TypeDefOrRef value of an interface column names
InterfaceOf(row) ==
    LET t == decode("TypeDefOrRef", row.interface).val
    IN  Ptr(t.target, TokenList["TypeDefOrRef"][t.target], t.rid - 1)

\* The interfaces of the InterfaceImpl rows whose class column holds rid,
\* in the order of the rows
InterfacesOf(rid) ==
    LET rows == SelectSeq(raw_rows.interface_impls, LAMBDA r : r.class = rid)
    IN  [k \in DOMAIN rows |-> InterfaceOf(rows[k])]

EncIsRejected ==
    (~IsUnread(metadata) /\ Has(stream_names, "#-") /\ ~Has(stream_names, "#~"))
        => IsErr(metadata)

\* C20: with a Module table or an Assembly table that has not exactly one
\* row, Module::from_metadata returns an error.
RowCountIsChecked ==
    (~IsUnread(loaded) /\ (table_rows["module"] # 1 \/ table_rows["assembly"] # 1))
        => IsErr(loaded)

\* C24: when Module::from_metadata has returned Ok, every cell that
\* from_rows allocated has been set, and so has every cell of every list of
\* the module, however many rows each table has.
NoUnsetCellOnSuccess ==
    IsOk(loaded) =>
        /\ \A list \in Lists : \A i \in DOMAIN entries[list] :
              entries[list][i].is_set
        /\ \A list \in Lists \ {"interface_impls"} :
              /\ Len(loaded.val[list]) = Rows(list)
              /\ \A i \in DOMAIN loaded.val[list] : loaded.val[list][i].is_set

\* C24 seen: a module built from tables of two rows, of one row and of no
\* row
BuiltFromSeveralRowCounts ==
    /\ IsOk(loaded)
    /\ Len(loaded.val.type_defs) = 2
    /\ Len(loaded.val.modules) = 1
    /\ Len(entries.interface_impls) = 1
    /\ \E list \in Lists : Len(entries[list]) = 0

\* C25: neither the reads of the rows nor the pass over the interface rows
\* ends in the failure of the assertion that a cell is set.
IsSetNeverFails ==
    ~(IsPanic(loaded) /\ loaded.val = "assertion failed: self.is_set()")

\* C25 seen: the pass has taken the value out of an interface row's cell
\* and pushed its interface into the cell of its class
InterfaceCellsRead ==
    /\ IsOk(loaded)
    /\ Len(entries.interface_impls) >= 1
    /\ \E rid \in DOMAIN loaded.val.type_defs :
          /\ Len(loaded.val.type_defs[rid].value.interface_impl) = 1
          /\ Len(entries.type_defs[rid].value.interface_impl) = 0

\* The target rows of the range an owner row resolved to
RangeOf(i) == {resolved[i].val[k] : k \in DOMAIN resolved[i].val}

\* The list column is non-decreasing and in bounds: every value is the row
\* id of a target row or the row id one past the last
ListColumnInOrder ==
    /\ \A i \in DOMAIN list_col : list_col[i] \in 1..(target_len + 1)
    /\ \A i, j \in DOMAIN list_col : i <= j => list_col[i] <= list_col[j]

\* C26: for a list column that is non-decreasing and in bounds every owner
\* row resolves to a range; the ranges of different rows are disjoint and
\* in the order of the rows; and once every row is read, each target row
\* from the start of the first range to the end of the table is in the
\* range of exactly one owner row.
RangesPartitionTargets ==
    ListColumnInOrder =>
        /\ \A i \in ReadOwners : IsOk(resolved[i])
        /\ \A i, j \in ReadOwners :
              i < j => \A a \in RangeOf(i) : \A b \in RangeOf(j) : a < b
        /\ build_result = "ok" =>
              \A t \in (list_col[1] - 1)..(target_len - 1) :
                  Cardinality({i \in ReadOwners : t \in RangeOf(i)}) = 1

\* C26 seen: the owner rows have shared out the target rows after the
\* first, two of them or more with a range that is not empty
TargetsSharedOut ==
    /\ ListColumnInOrder
    /\ build_result = "ok"
    /\ Len(resolved) = NumOwners
    /\ Cardinality({i \in ReadOwners : RangeOf(i) # {}}) >= 2
    /\ list_col[1] > 1

\* The number of parameter types of a decoded method signature, the
\* parameter list and the after-sentinel list together
ParamTypesOf(m) ==
    Len(m.parameters)
        + (IF m.params_after_sentinel.some THEN Len(m.params_after_sentinel.v)
           ELSE 0)

\* C27: a method signature that is decoded with success holds as many
\* parameter types, in its parameter list and its after-sentinel list
\* together, as the parameter count of its blob declares.
DeclaredParamsDecoded ==
    (sig_kind = "SignatureDef" /\ IsOk(sig_result)
        /\ sig_result.val.calling_convention.variant = "Method")
    => ParamTypesOf(sig_result.val.calling_convention.sig) = ParamCount

\* The reads of a GENERICINST that have read the argument count and
\* allocated the vector of the arguments
GenericInstFrames ==
    {i \in DOMAIN sig_stack : sig_stack[i].at = "GenericInst.generic_args"}

\* Vec::with_capacity(n) of such a read: the count it read from the blob
GenericArgsCapacity(i) == sig_stack[i].n + Len(sig_stack[i].generic_args)

\* C28: the argument count of a GENERICINST that sizes the vector of the
\* arguments and drives the loop that reads them is at most the ceiling of
\* 0x1000 that the counted signatures have, or at most the number of bytes
\* of the blob.
GenericInstCountBounded ==
    \A i \in GenericInstFrames :
        \/ GenericArgsCapacity(i) <= 4096
        \/ GenericArgsCapacity(i) <= Len(sig_reader.bytes)

-----------------------------------------------------------------------------
(* md/streams/values_streams.rs, blob_stream/reader.rs: the accessors that *)
(* resolve an offset column against its heap                               *)

\* The largest offset a column is given
MaxOffset == 33

\* #Blob: an empty blob, a blob of two bytes, and a blob whose length
\* prefix runs past the end of the heap
BlobHeap == <<0, 2, 6, 8, 5, 6, 8>>

HeapNames == {"#Strings", "#GUID", "#Blob"}

HeapStart ==
    /\ heap_name \in HeapNames
    /\ heap_offset \in 0..MaxOffset
    /\ heap_value = Unread

\* StringsStream::read_string
StringsStream_read_string ==
    /\ heap_name = "#Strings"
    /\ IsUnread(heap_value)
    /\ heap_value' = read_string(heap_offset)
    /\ UNCHANGED <<heap_name, heap_offset, rangeVars, headerVars, layoutVars,
                   tokenVars, sigVars, buildVars,
                   peVars,
                   typeVars,
                   resolverVars>>

\* GuidStream::read_guid
GuidStream_read_guid ==
    /\ heap_name = "#GUID"
    /\ IsUnread(heap_value)
    /\ heap_value' = read_guid(heap_offset)
    /\ UNCHANGED <<heap_name, heap_offset, rangeVars, headerVars, layoutVars,
                   tokenVars, sigVars, buildVars,
                   peVars,
                   typeVars,
                   resolverVars>>

\* BlobStream::get_signature_reader
BlobStream_get_signature_reader ==
    /\ heap_name = "#Blob"
    /\ IsUnread(heap_value)
    /\ heap_value' = get_signature_reader(BlobHeap, heap_offset)
    /\ UNCHANGED <<heap_name, heap_offset, rangeVars, headerVars, layoutVars,
                   tokenVars, sigVars, buildVars,
                   peVars,
                   typeVars,
                   resolverVars>>

HeapInit ==
    HeapStart /\ RangeIdle /\ HeaderIdle /\ LayoutIdle /\ TokenIdle /\ SigIdle
        /\ BuildIdle
        /\ PeIdle
        /\ TypeIdle
        /\ ResolverIdle

HeapNext ==
    \/ StringsStream_read_string
    \/ GuidStream_read_guid
    \/ BlobStream_get_signature_reader

SpecHeap == HeapInit /\ [][HeapNext]_vars

\* The bytes of the heap an accessor reads
HeapData ==
    IF heap_name = "#Strings" THEN StringsHeap
    ELSE IF heap_name = "#GUID" THEN GuidHeap
    ELSE BlobHeap

\* The byte position of the heap that the offset names
OffsetPosition ==
    IF heap_name = "#GUID" THEN (heap_offset - 1) * GUID_SIZE ELSE heap_offset

\* The offset lies beyond the data available: no byte of the heap is at
\* its position, or (a GUID) fewer than 16 bytes are
OffsetBeyondData ==
    IF heap_name = "#GUID"
    THEN heap_offset > 0 /\ OffsetPosition + GUID_SIZE > Len(HeapData)
    ELSE OffsetPosition >= Len(HeapData)

\* C21: no heap accessor panics, and an offset that lies beyond the data
\* of its heap is answered with the bounds error InvalidStreamIndex that
\* carries the heap and the position of the offset.
HeapOffsetsAreChecked ==
    /\ ~IsPanic(heap_value)
    /\ (~IsUnread(heap_value) /\ OffsetBeyondData) =>
          /\ IsErr(heap_value)
          /\ heap_value.val[1] = "InvalidStreamIndex"
          /\ IF heap_name = "#Blob"
             THEN heap_value.val[2] = OffsetPosition
             ELSE heap_value.val[2] = <<heap_name, OffsetPosition>>

-----------------------------------------------------------------------------
(* io/peimage.rs: from an RVA to a reader over the file's bytes            *)

\* The largest rva and the largest size handed to create_reader
MaxRva == 17
MaxSize == 5

\* SectionTable: the fields rva_to_section and rva_to_file_offset read
Section(virtual_address, virtual_size, size_of_raw_data, pointer_to_raw_data) ==
    [virtual_address |-> virtual_address, virtual_size |-> virtual_size,
     size_of_raw_data |-> size_of_raw_data,
     pointer_to_raw_data |-> pointer_to_raw_data]

\* Two images of 16 bytes.  The first: headers, a section at rva 4 whose
\* raw data is shorter than its virtual size, a gap, a section at rva 12.
\* The second: sections at rva 8 and 12 whose raw data lies at other file
\* positions, the image 16 bytes of a file of 14.
PEImages ==
    {[size_of_image |-> 16, section_alignment |-> 4, data_len |-> 16,
      sections |-> <<Section(4, 3, 2, 8), Section(12, 4, 4, 10)>>],
     [size_of_image |-> 16, section_alignment |-> 2, data_len |-> 14,
      sections |-> <<Section(8, 4, 4, 2), Section(12, 3, 4, 10)>>]}

\* PEImage::rva_to_section: the first section the rva lies in.  align_up
\* is (v + allignment - 1) & !(allignment - 1), the section alignment being
\* a power of two.
rva_to_section(image, rva) ==
    LET align_up(v, allignment) ==
            ((v + allignment - 1) \div allignment) * allignment
        found == {i \in DOMAIN image.sections :
                    /\ rva >= image.sections[i].virtual_address
                    /\ rva < image.sections[i].virtual_address
                             + align_up(image.sections[i].virtual_size,
                                        image.section_alignment)}
    IN  IF found = {} THEN None
        ELSE Some(image.sections[CHOOSE i \in found : \A j \in found : i <= j])

\* PEImage::rva_to_file_offset
rva_to_file_offset(image, rva) ==
    LET image_section_header == rva_to_section(image, rva)
    IN  IF rva >= image.size_of_image THEN Err("BadRva", rva)
        ELSE IF image_section_header.some
        THEN LET section == image_section_header.v
                 offset == rva - section.virtual_address
             IN  IF offset >= section.size_of_raw_data
                 THEN Err("BadRva", rva)
                 ELSE Ok(offset + section.pointer_to_raw_data)
        ELSE Ok(rva)

PeStart ==
    /\ pe \in PEImages
    /\ pe_rva \in 0..MaxRva
    /\ pe_size \in {None} \cup {Some(n) : n \in 0..MaxSize}
    /\ pe_reader = Unread

\* PEImage::create_reader: the reader holds data[start .. start + len);
\* a slice that runs past data.len() panics
PEImage_create_reader ==
    /\ IsUnread(pe_reader)
    /\ LET file_offset == rva_to_file_offset(pe, pe_rva)
           end == IF pe_size.some THEN file_offset.val + pe_size.v
                  ELSE pe.data_len
       IN  pe_reader' =
             IF IsErr(file_offset) THEN file_offset
             ELSE IF file_offset.val > pe.data_len \/ end > pe.data_len
             THEN Panic("range index out of range for slice")
             ELSE Ok([start |-> file_offset.val, len |-> end - file_offset.val])
    /\ UNCHANGED <<pe, pe_rva, pe_size, rangeVars, headerVars, layoutVars,
                   tokenVars, sigVars, buildVars, heapVars,
                   typeVars,
                   resolverVars>>

PeInit ==
    PeStart /\ RangeIdle /\ HeaderIdle /\ LayoutIdle /\ TokenIdle /\ SigIdle
        /\ BuildIdle /\ HeapIdle
        /\ TypeIdle
        /\ ResolverIdle

PeNext == PEImage_create_reader

SpecPe == PeInit /\ [][PeNext]_vars

\* The sections that map the rva: those whose span of virtual addresses,
\* rounded up to the section alignment, holds it
MappingSections ==
    {i \in DOMAIN pe.sections :
        LET span == ((pe.sections[i].virtual_size + pe.section_alignment - 1)
                        \div pe.section_alignment) * pe.section_alignment
        IN  pe_rva - pe.sections[i].virtual_address \in 0..(span - 1)}

\* C22: create_reader never panics; for an rva that no section maps it
\* returns an error; and a reader it returns starts at the file position
\* of the rva in the section that maps it and lies within the file.
CreateReaderChecksRva ==
    ~IsUnread(pe_reader) =>
        /\ ~IsPanic(pe_reader)
        /\ MappingSections = {} => IsErr(pe_reader)
        /\ IsOk(pe_reader) =>
              /\ \E i \in MappingSections :
                    pe_reader.val.start = pe.sections[i].pointer_to_raw_data
                        + (pe_rva - pe.sections[i].virtual_address)
              /\ pe_reader.val.start + pe_reader.val.len <= pe.data_len

-----------------------------------------------------------------------------
(* entries/values.rs: how a TypeDef classifies itself                      *)

\* TypeAttributes (tables.rs), each constant as the set of its bits.
\* AutoLayout and Class are the zero values of their masks.
TypeAttributes ==
    [AutoLayout |-> {}, SequentialLayout |-> {8}, Class |-> {},
     Interface |-> {32}, Abstract |-> {128}, Sealed |-> {256}]

\* bitflags' contains: (self & other) == other
contains(self, other) == other \subseteq self

\* The well-known types the tests name
SystemTypes == {"Object", "ValueType", "Enum", "MulticastDelegate"}

\* A TypeRef, by what the well-known-type lookup answers for its full
\* name: Some(system type), or nothing for a name the lookup does not hold
TypeRefs ==
    {[variant |-> "TypeRef", system_type |-> [some |-> TRUE, v |-> n]] :
        n \in SystemTypes}
    \cup {[variant |-> "TypeRef", system_type |-> [some |-> FALSE, v |-> ""]]}

\* TypeRef::is_system_type_instance:
\* SystemType::from_full_name(namespace, name) == Some(system_type)
is_system_type_instance(r, system_type) ==
    r.system_type.some /\ r.system_type.v = system_type

\* Option<TypeDefOrRef>: the base is absent, a TypeDef, or a TypeRef
Extends ==
    {[some |-> FALSE, v |-> [variant |-> "", system_type |-> <<>>]],
     Some([variant |-> "TypeDef", system_type |-> <<>>])}
    \cup {Some(r) : r \in TypeRefs}

\* TypeDefOrRef::is_type_ref_and over a test of the well-known type
is_type_ref_and(c, system_type) ==
    IF c.variant = "TypeRef" THEN is_system_type_instance(c, system_type)
    ELSE FALSE

\* TypeDef::is_static
is_static(fl, extends) ==
    /\ contains(fl, TypeAttributes.AutoLayout)
    /\ contains(fl, TypeAttributes.Class)
    /\ contains(fl, TypeAttributes.Abstract)
    /\ contains(fl, TypeAttributes.Sealed)
    /\ IF extends.some THEN is_type_ref_and(extends.v, "Object") ELSE FALSE

\* TypeDef::is_enum
is_enum(fl, extends) ==
    /\ ~contains(fl, TypeAttributes.Abstract)
    /\ contains(fl, TypeAttributes.AutoLayout)
    /\ contains(fl, TypeAttributes.Class)
    /\ contains(fl, TypeAttributes.Sealed)
    /\ IF extends.some THEN is_type_ref_and(extends.v, "Enum") ELSE FALSE

\* TypeDef::is_interface
is_interface(fl, extends) ==
    /\ ~extends.some
    /\ contains(fl, TypeAttributes.AutoLayout)
    /\ contains(fl, TypeAttributes.Interface)

\* TypeDef::is_struct: the test of the base has an empty body, `if
\* exent.is_type_ref_and(..) {}`, so only an absent base returns early
is_struct(fl, extends) ==
    /\ extends.some
    /\ contains(fl, TypeAttributes.Class)
    /\ contains(fl, TypeAttributes.Sealed)
    /\ ~contains(fl, TypeAttributes.Abstract)

\* TypeDef::is_delegate
is_delegate(fl, extends) ==
    /\ ~contains(fl, TypeAttributes.AutoLayout)
    /\ ~contains(fl, TypeAttributes.Abstract)
    /\ contains(fl, TypeAttributes.Class)
    /\ contains(fl, TypeAttributes.Sealed)

TypeStart ==
    /\ type_flags \in SUBSET {8, 32, 128, 256}
    /\ type_extends \in Extends
    /\ type_is = Unread

\* The five tests of one TypeDef
TypeDef_is ==
    /\ IsUnread(type_is)
    /\ type_is' = Ok([static |-> is_static(type_flags, type_extends),
                      enum |-> is_enum(type_flags, type_extends),
                      interface |-> is_interface(type_flags, type_extends),
                      struct |-> is_struct(type_flags, type_extends),
                      delegate |-> is_delegate(type_flags, type_extends)])
    /\ UNCHANGED <<type_flags, type_extends, rangeVars, headerVars, layoutVars,
                   tokenVars, sigVars, buildVars, heapVars, peVars,
                   resolverVars>>

TypeInit ==
    TypeStart /\ RangeIdle /\ HeaderIdle /\ LayoutIdle /\ TokenIdle /\ SigIdle
        /\ BuildIdle /\ HeapIdle /\ PeIdle
        /\ ResolverIdle

TypeNext == TypeDef_is

SpecType == TypeInit /\ [][TypeNext]_vars

\* The base type is the reference to the well-known type of the name
BaseIs(system_type) ==
    /\ type_extends.some
    /\ type_extends.v.variant = "TypeRef"
    /\ type_extends.v.system_type.some
    /\ type_extends.v.system_type.v = system_type

\* C23: a TypeDef is a struct only when its base is System.ValueType, an
\* enum only when it is System.Enum, a delegate only when it is
\* System.MulticastDelegate, and a static class only when it is
\* System.Object.
ClassifiedByBase ==
    IsOk(type_is) =>
        /\ type_is.val.struct => BaseIs("ValueType")
        /\ type_is.val.enum => BaseIs("Enum")
        /\ type_is.val.delegate => BaseIs("MulticastDelegate")
        /\ type_is.val.static => BaseIs("Object")

\* entries/signature.rs, ValueType::from_type_sig: the arms of the variants
\* that carry nothing, and the ValueType of each
ValueType_from_type_sig ==
    [Void |-> "Void", Boolean |-> "Boolean", Char |-> "Char",
     SByte |-> "SByte", Byte |-> "Byte", Int16 |-> "Int16",
     UInt16 |-> "UInt16", Int32 |-> "Int32", UInt32 |-> "UInt32",
     Int64 |-> "Int64", UInt64 |-> "UInt64", Single |-> "Single",
     Double |-> "Double", String |-> "String",
     TypedRefrence |-> "TypedRefrence", IntPtr |-> "IntPtr",
     UIntPtr |-> "IntPtr", Object |-> "Object"]

\* The kind each primitive element type names: I1 is the signed and U1 the
\* unsigned 8-bit integer, I the signed and U the unsigned native integer
KindOfTag ==
    [Void |-> "Void", Boolean |-> "Boolean", Char |-> "Char", I1 |-> "SByte",
     U1 |-> "Byte", I2 |-> "Int16", U2 |-> "UInt16", I4 |-> "Int32",
     U4 |-> "UInt32", I8 |-> "Int64", U8 |-> "UInt64", R4 |-> "Single",
     R8 |-> "Double", String |-> "String", TypedByRef |-> "TypedRefrence",
     I |-> "IntPtr", U |-> "UIntPtr", Object |-> "Object"]

\* The ValueType a field signature of the one element type e ends as
FieldTypeOf(e) == ValueType_from_type_sig[PlainType[e]]

\* A field signature of one primitive element type has been decoded
PrimitiveFieldRead ==
    /\ sig_kind = "SignatureDef"
    /\ IsOk(sig_result)
    /\ sig_reader.bytes \in PrimitiveSigs
    /\ sig_result.val.calling_convention.variant = "Field"

\* C30: a field signature of one primitive element type is decoded to the
\* kind of that name and signedness (I1 to SByte, U1 to Byte, I to IntPtr,
\* U to UIntPtr), and no other primitive element type ends as the same
\* kind.
PrimitiveTagsKeepTheirKind ==
    PrimitiveFieldRead =>
        LET e == ElementTypeLow[sig_reader.bytes[2] + 1]
            field == ValueType_from_type_sig[
                         sig_result.val.calling_convention.sig.variant]
        IN  /\ field = KindOfTag[e]
            /\ \A other \in DOMAIN KindOfTag \ {e} : FieldTypeOf(other) # field

-----------------------------------------------------------------------------
(* module/resolver.rs, module/loaded.rs: loading the assemblies a module   *)
(* references                                                              *)

MaxRefs == 2        \* AssemblyRef rows of one assembly
MaxParses == 3      \* modules of one name after which the model stops
MaxLoads == 2       \* calls of load from outside

AssemblyNames == {"A", "B", "C"}

\* The AssemblyRef names of one file: at most MaxRefs different names
RefLists ==
    {refs \in SeqsUpTo(AssemblyNames, MaxRefs) :
        \A i, j \in DOMAIN refs : i # j => refs[i] # refs[j]}

\* self.assembly_list.iter().filter(|(saved_asm, _)| saved_asm ==
\* assembly_name).map(..).next()
cached_module(list, assembly_name) ==
    \E i \in DOMAIN list : list[i] = assembly_name

\* self.assembly_list.push((assembly_name.into(), loaded_asm.clone()))
push_skipped(list, assembly_name) == list
assembly_list_push(list, assembly_name) == Append(list, assembly_name)

ResolverStart ==
    /\ assembly_refs \in [AssemblyNames -> RefLists]
    /\ found_paths \in {AssemblyNames, AssemblyNames \ {"A"}, AssemblyNames \ {"B"}}
    /\ unreadable \in {{}, {"B"}}
    /\ unreadable \subseteq found_paths
    /\ load_calls = 1
    /\ assembly_list = <<>>
    /\ parsed = [n \in AssemblyNames |-> 0]
    /\ refrenced = {}
    /\ load_stack = <<>>
    /\ load_pc = [op |-> "call", assembly_name |-> "A"]
    /\ load_result = Unread

\* A caller loads one more assembly with the same resolver
AssemblyResolver_load_call ==
    /\ load_pc.op = "done"
    /\ load_calls < MaxLoads
    /\ load_calls' = load_calls + 1
    /\ \E assembly_name \in AssemblyNames :
          load_pc' = [op |-> "call", assembly_name |-> assembly_name]
    /\ load_result' = Unread
    /\ UNCHANGED <<assembly_refs, found_paths, unreadable, assembly_list, parsed,
                   refrenced, load_stack,
                   rangeVars, headerVars, layoutVars, tokenVars, sigVars,
                   buildVars, heapVars, peVars, typeVars>>

\* PathAssemblyResolver::load up to its call of load_dependancies: the
\* cached module is returned, or the file is read and pushed, or the file
\* is not read ("?"), or no file is found
PathAssemblyResolver_load ==
    /\ load_pc.op = "call"
    /\ LET assembly_name == load_pc.assembly_name
       IN  IF cached_module(assembly_list, assembly_name)
           THEN /\ load_pc' = [op |-> "ret", val |-> Ok(assembly_name)]
                /\ UNCHANGED <<assembly_list, parsed, load_stack>>
           ELSE IF assembly_name \in found_paths /\ assembly_name \in unreadable
           THEN /\ load_pc' = [op |-> "ret",
                               val |-> Err("from_path_no_resolve", assembly_name)]
                /\ UNCHANGED <<assembly_list, parsed, load_stack>>
           ELSE IF assembly_name \in found_paths
           THEN /\ parsed[assembly_name] < MaxParses
                /\ parsed' = [parsed EXCEPT ![assembly_name] = @ + 1]
                /\ assembly_list' = assembly_list_push(assembly_list, assembly_name)
                /\ load_stack' = Append(load_stack,
                                        [module |-> assembly_name, asm |-> 1])
                /\ load_pc' = [op |-> "for"]
           ELSE /\ load_pc' = [op |-> "ret",
                               val |-> Err("IoError", assembly_name)]
                /\ UNCHANGED <<assembly_list, parsed, load_stack>>
    /\ UNCHANGED <<assembly_refs, found_paths, unreadable, load_calls, refrenced,
                   load_result,
                   rangeVars, headerVars, layoutVars, tokenVars, sigVars,
                   buildVars, heapVars, peVars, typeVars>>

\* Module::load_dependancies, the head of its loop: the next AssemblyRef is
\* skipped, or resolver.load is called for its name, or the loop is over
\* and load returns the module
Module_load_dependancies ==
    /\ load_pc.op = "for"
    /\ LET frame == load_stack[Len(load_stack)]
           refs == assembly_refs[frame.module]
       IN  IF frame.asm > Len(refs)
           THEN /\ load_stack' = SubSeq(load_stack, 1, Len(load_stack) - 1)
                /\ load_pc' = [op |-> "ret", val |-> Ok(frame.module)]
           ELSE IF <<frame.module, frame.asm>> \in refrenced
           THEN /\ load_stack' = [load_stack EXCEPT ![Len(load_stack)].asm = @ + 1]
                /\ load_pc' = load_pc
           ELSE /\ load_stack' = load_stack
                /\ load_pc' = [op |-> "call", assembly_name |-> refs[frame.asm]]
    /\ UNCHANGED <<assembly_refs, found_paths, unreadable, load_calls,
                   assembly_list, parsed, refrenced, load_result,
                   rangeVars, headerVars, layoutVars, tokenVars, sigVars,
                   buildVars, heapVars, peVars, typeVars>>

\* resolver.load returns: to the load_dependancies that called it, which
\* stores the module or returns the error ("?", and the "?" of the load
\* that called it), or to the caller of the outermost load
PathAssemblyResolver_load_returns ==
    /\ load_pc.op = "ret"
    /\ IF load_stack = <<>>
       THEN /\ load_result' = load_pc.val
            /\ load_pc' = [op |-> "done"]
            /\ UNCHANGED <<load_stack, refrenced>>
       ELSE LET frame == load_stack[Len(load_stack)]
            IN  /\ load_result' = load_result
                /\ IF IsOk(load_pc.val)
                   THEN /\ refrenced' = refrenced \cup {<<frame.module, frame.asm>>}
                        /\ load_stack' =
                              [load_stack EXCEPT ![Len(load_stack)].asm = @ + 1]
                        /\ load_pc' = [op |-> "for"]
                   ELSE /\ refrenced' = refrenced
                        /\ load_stack' = SubSeq(load_stack, 1, Len(load_stack) - 1)
                        /\ load_pc' = load_pc
    /\ UNCHANGED <<assembly_refs, found_paths, unreadable, load_calls,
                   assembly_list, parsed,
                   rangeVars, headerVars, layoutVars, tokenVars, sigVars,
                   buildVars, heapVars, peVars, typeVars>>

ResolverInit ==
    ResolverStart /\ RangeIdle /\ HeaderIdle /\ LayoutIdle /\ TokenIdle
        /\ SigIdle /\ BuildIdle /\ HeapIdle /\ PeIdle /\ TypeIdle

\* The steps of a load that is under way
LoadStep ==
    \/ PathAssemblyResolver_load
    \/ Module_load_dependancies
    \/ PathAssemblyResolver_load_returns

ResolverNext ==
    \/ AssemblyResolver_load_call
    \/ PathAssemblyResolver_load
    \/ Module_load_dependancies
    \/ PathAssemblyResolver_load_returns

\* A load that is under way runs on: the thread takes the step it can take
SpecResolver ==
    ResolverInit /\ [][ResolverNext]_vars /\ WF_vars(LoadStep)

\* C29: whatever the assemblies reference, cycles included, and however
\* often load is called, one resolver makes at most one module of a name,
\* pushes no name twice, has a module in its list while the module's own
\* references are loaded, and every load that is called returns.
LoadReadsOnceAndReturns ==
    /\ [](\A n \in AssemblyNames : parsed[n] <= 1)
    /\ [](\A i, j \in DOMAIN assembly_list :
            i # j => assembly_list[i] # assembly_list[j])
    /\ [](\A k \in DOMAIN load_stack :
            cached_module(assembly_list, load_stack[k].module))
    /\ [](\A n \in AssemblyNames :
            parsed[n] = 1 <=> cached_module(assembly_list, n))
    /\ [](load_pc.op # "done" => <>(load_pc.op = "done"))

\* C29 seen: A and B reference each other, the load of A has made both
\* modules, and a second load has returned the module in the list
CycleLoaded ==
    /\ IsOk(load_result)
    /\ load_calls = MaxLoads
    /\ load_pc.op = "done"
    /\ \E i \in DOMAIN assembly_refs["A"] : assembly_refs["A"][i] = "B"
    /\ \E i \in DOMAIN assembly_refs["B"] : assembly_refs["B"][i] = "A"
    /\ Len(assembly_list) >= 2
    /\ <<"B", 1>> \in refrenced

=============================================================================
